---- MODULE Spec2Model ----
(***************************************************************************)
(* react-detective: the page hook (src/page-hook.js), which attaches to    *)
(* window.__REACT_DEVTOOLS_GLOBAL_HOOK__, polls for renderers, wraps       *)
(* onCommitFiberRoot and posts STATUS / FIBER_GRAPH / FIBER_UPDATE /       *)
(* FIBER_META events to the page's window.                                 *)
(*                                                                         *)
(* Strings built by the code are modelled as token sequences: a stable id  *)
(* "ROOT/App[0]/Item[1]" is <<RootSeg, Seg("App",0), Seg("Item",1)>>.      *)
(* JavaScript null / undefined references to fibers are the fiber 0.       *)
(***************************************************************************)
EXTENDS Integers, Sequences, FiniteSets, TLC

(***************************************************************************)
(* Program constants (src/page-hook.js:43-45).                             *)
(***************************************************************************)
MAX_NODES == 800
TIMEOUT_MS == 3000
POLL_MS == 50

(***************************************************************************)
(* Bounds of the model.                                                    *)
(***************************************************************************)
MaxFibers == 3
MaxBudget == 2
MaxInjects == 2
MaxCalls == 2
MaxRenderers == 2
MaxRoots == 2
MaxTreeFibers == 5
MaxVal == 2

Fibers == 1..MaxFibers
NULLF == 0
FiberRefs == 0..MaxFibers

(***************************************************************************)
(* Small helpers on sequences.                                             *)
(***************************************************************************)
SeqToSet(s) == {s[i] : i \in DOMAIN s}

RECURSIVE SeqFilterOut(_, _)
SeqFilterOut(s, x) ==
  IF s = <<>> THEN <<>>
  ELSE IF Head(s) = x THEN SeqFilterOut(Tail(s), x)
       ELSE <<Head(s)>> \o SeqFilterOut(Tail(s), x)

(***************************************************************************)
(* Stable ids.  NoId is the JavaScript null parent id (falsy); every real  *)
(* id is a non-empty string (truthy).                                      *)
(***************************************************************************)
NoId == <<>>
NoIdx == -1
Seg(name, idx) == [name |-> name, idx |-> idx]
RootSeg == Seg("ROOT", NoIdx)

(***************************************************************************)
(* A fiber of the host framework, as far as the page hook reads it:        *)
(*   child, sibling, alternate : fiber references (0 = null)               *)
(*   typeKind   : typeof fiber.type, with "null" for null / undefined      *)
(*   tag        : "provider" / "context" for the two $$typeof specials     *)
(*   ctxDisplayName, typeDisplayName, typeName, elDisplayName, elName :    *)
(*                the name fields, "" when absent (falsy)                  *)
(*   flags      : the dirty flags value, 0 also for absent                 *)
(*   memoizedProps, memoizedState : snapshots, see Snap below              *)
(* A heap is a function from Fibers to such records.                       *)
(***************************************************************************)

(* A snapshot is null / undefined, or an object: its own keys in          *)
(* insertion order and their values.                                       *)
NullSnap == [nil |-> TRUE, keys |-> <<>>, val |-> <<>>]
ObjSnap(keys, val) == [nil |-> FALSE, keys |-> keys, val |-> val]

(* Object.keys(x || {}) *)
ObjectKeys(snap) == IF snap.nil THEN <<>> ELSE snap.keys

(* x[k] for an object x: the value (a number >= 0 stands for any value,   *)
(* compared with !==), or undefined                                       *)
Undefined == -1
GetField(snap, k) ==
  IF \E i \in DOMAIN snap.keys : snap.keys[i] = k
  THEN snap.val[CHOOSE i \in DOMAIN snap.keys : snap.keys[i] = k]
  ELSE Undefined

(***************************************************************************)
(* getDisplayName (src/page-hook.js:225-241)                               *)
(***************************************************************************)
Truthy(s) == s # ""

getDisplayName(fiber) ==
  IF fiber.tag = "provider"
  THEN (IF Truthy(fiber.ctxDisplayName) THEN fiber.ctxDisplayName ELSE "Context.Provider")
  ELSE IF fiber.tag = "context"
  THEN (IF Truthy(fiber.ctxDisplayName) THEN fiber.ctxDisplayName ELSE "Context.Consumer")
  ELSE IF Truthy(fiber.typeDisplayName) THEN fiber.typeDisplayName
  ELSE IF Truthy(fiber.typeName) THEN fiber.typeName
  ELSE IF Truthy(fiber.elDisplayName) THEN fiber.elDisplayName
  ELSE IF Truthy(fiber.elName) THEN fiber.elName
  ELSE "Anonymous"

(***************************************************************************)
(* isReactComponent (src/page-hook.js:249-253)                             *)
(***************************************************************************)
isReactComponentAll(fiber) == TRUE

isReactComponentWhenClean(fiber) ==
  (fiber.typeKind = "function" \/ fiber.typeKind = "object") /\ fiber.flags = 0

isReactComponent(fiber) ==
  fiber.typeKind = "function" \/ fiber.typeKind = "object"

(***************************************************************************)
(* shallowDiff (src/page-hook.js:263-275): the changed keys, in the order  *)
(* of the Set built from prev's keys followed by next's keys.              *)
(***************************************************************************)
RECURSIVE Dedup(_)
Dedup(s) ==
  IF s = <<>> THEN <<>>
  ELSE <<Head(s)>> \o Dedup(SeqFilterOut(Tail(s), Head(s)))

RECURSIVE ChangedKeys(_, _, _)
ChangedKeys(keys, prev, next) ==
  IF keys = <<>> THEN <<>>
  ELSE (IF GetField(prev, Head(keys)) # GetField(next, Head(keys))
        THEN <<Head(keys)>> ELSE <<>>)
       \o ChangedKeys(Tail(keys), prev, next)

shallowDiff(prev, next) ==
  IF prev.nil \/ next.nil THEN ObjectKeys(next)
  ELSE ChangedKeys(Dedup(prev.keys \o next.keys), prev, next)

(***************************************************************************)
(* buildIdMap (src/page-hook.js:288-349).  The traversal state is          *)
(*   idByFiber : the Map, as the sequence of its entries in insertion      *)
(*               order, each [fiber, id, parentId]                         *)
(*   visited   : the Set of fibers                                         *)
(*   counters  : the Map from "parentId::name" to the next index, as a     *)
(*               function on the keys <<parentId, name>> set so far        *)
(*   count     : the number of identified nodes                            *)
(*   visits    : the fibers that passed the guard of visit, in order, each *)
(*               with the count it found                                   *)
(***************************************************************************)
EmptyPass ==
  [idByFiber |-> <<>>, visited |-> {}, counters |-> <<>>, count |-> 0, visits |-> <<>>]

CounterKeyNoName(parentId, name) == <<parentId, "">>

CounterKey(parentId, name) == <<parentId, name>>

(* counters.get(key) ?? 0 *)
CounterGet(counters, key) ==
  IF \E i \in DOMAIN counters : counters[i].key = key
  THEN counters[CHOOSE i \in DOMAIN counters : counters[i].key = key].next
  ELSE 0

(* counters.set(key, n) *)
CounterSet(counters, key, n) ==
  IF \E i \in DOMAIN counters : counters[i].key = key
  THEN [i \in DOMAIN counters |->
          IF counters[i].key = key THEN [key |-> key, next |-> n] ELSE counters[i]]
  ELSE Append(counters, [key |-> key, next |-> n])

(* nextIndex (src/page-hook.js:300-305): the index handed out *)
nextIndex(counters, parentId, name) ==
  CounterGet(counters, CounterKey(parentId, name))

nextIndexCountersStuck(counters, parentId, name) == counters

(* nextIndex's write: counters.set(key, cur + 1) *)
nextIndexCounters(counters, parentId, name) ==
  CounterSet(counters, CounterKey(parentId, name),
             CounterGet(counters, CounterKey(parentId, name)) + 1)

(* the guard of visit, line 316 *)
VisitSkipsNoBudget(fiber, st, maxNodes) == fiber = NULLF \/ fiber \in st.visited

VisitSkipsOffByOne(fiber, st, maxNodes) ==
  fiber = NULLF \/ fiber \in st.visited \/ st.count > maxNodes

VisitSkips(fiber, st, maxNodes) ==
  fiber = NULLF \/ fiber \in st.visited \/ st.count >= maxNodes

RECURSIVE visit(_, _, _, _, _, _)
visit(h, rootFiber, maxNodes, fiber, parentComponentId, st) ==
  IF VisitSkips(fiber, st, maxNodes) THEN st
  ELSE
    LET st1 == [st EXCEPT !.visited = @ \cup {fiber},
                          !.visits = Append(@, [fiber |-> fiber, count |-> st.count])]
        isComponent == fiber = rootFiber \/ isReactComponent(h[fiber])
        name == getDisplayName(h[fiber])
        hasParent == parentComponentId # NoId
        idx == IF hasParent THEN nextIndex(st1.counters, parentComponentId, name) ELSE 0
        id == IF hasParent
              THEN Append(parentComponentId, Seg(name, idx))
              ELSE <<RootSeg, Seg(name, 0)>>
        st2 == IF isComponent
               THEN [st1 EXCEPT
                       !.counters = IF hasParent
                                    THEN nextIndexCounters(@, parentComponentId, name)
                                    ELSE @,
                       !.idByFiber = Append(@, [fiber |-> fiber, id |-> id,
                                                parentId |-> parentComponentId]),
                       !.count = @ + 1]
               ELSE st1
        currentParentForChildren == IF isComponent THEN id ELSE parentComponentId
        st3 == IF h[fiber].child # NULLF
               THEN visit(h, rootFiber, maxNodes, h[fiber].child,
                          currentParentForChildren, st2)
               ELSE st2
    IN IF h[fiber].sibling # NULLF
       THEN visit(h, rootFiber, maxNodes, h[fiber].sibling, parentComponentId, st3)
       ELSE st3

buildIdMap(h, rootFiber, maxNodes) ==
  visit(h, rootFiber, maxNodes, rootFiber, NoId, EmptyPass).idByFiber

(* the fibers one pass of buildIdMap works on *)
VisitsOf(h, rootFiber, maxNodes) ==
  visit(h, rootFiber, maxNodes, rootFiber, NoId, EmptyPass).visits

(***************************************************************************)
(* buildFiberGraph (src/page-hook.js:360-383)                              *)
(***************************************************************************)
RECURSIVE EdgesOf(_)
EdgesOf(idByFiber) ==
  IF idByFiber = <<>> THEN <<>>
  ELSE (IF Head(idByFiber).parentId # NoId
        THEN <<[from |-> Head(idByFiber).parentId, to |-> Head(idByFiber).id]>>
        ELSE <<>>)
       \o EdgesOf(Tail(idByFiber))

buildFiberGraphChildrenOnly(h, rootFiber, maxNodes) ==
  LET idByFiber == SelectSeq(buildIdMap(h, rootFiber, maxNodes),
                             LAMBDA e : e.parentId # NoId)
  IN [nodes |-> [i \in DOMAIN idByFiber |->
                   [id |-> idByFiber[i].id,
                    name |-> getDisplayName(h[idByFiber[i].fiber])]],
      edges |-> EdgesOf(idByFiber)]

buildFiberGraph(h, rootFiber, maxNodes) ==
  LET idByFiber == buildIdMap(h, rootFiber, maxNodes)
  IN [nodes |-> [i \in DOMAIN idByFiber |->
                   [id |-> idByFiber[i].id,
                    name |-> getDisplayName(h[idByFiber[i].fiber])]],
      edges |-> EdgesOf(idByFiber)]

(***************************************************************************)
(* buildFiberUpdates (src/page-hook.js:398-420)                            *)
(***************************************************************************)
AltPropsCurrent(h, fiber) == h[fiber].memoizedProps

AltProps(h, fiber) ==
  IF h[fiber].alternate = NULLF THEN NullSnap ELSE h[h[fiber].alternate].memoizedProps

AltState(h, fiber) ==
  IF h[fiber].alternate = NULLF THEN NullSnap ELSE h[h[fiber].alternate].memoizedState

UpdateRecordWastedOnProps(h, entry) ==
  LET fiber == entry.fiber
      propsChanged == shallowDiff(AltProps(h, fiber), h[fiber].memoizedProps)
      stateChanged == shallowDiff(AltState(h, fiber), h[fiber].memoizedState)
  IN [id |-> entry.id,
      propsChanged |-> propsChanged,
      stateChanged |-> stateChanged,
      wasted |-> (Len(propsChanged) = 0)]

UpdateRecord(h, entry) ==
  LET fiber == entry.fiber
      propsChanged == shallowDiff(AltProps(h, fiber), h[fiber].memoizedProps)
      stateChanged == shallowDiff(AltState(h, fiber), h[fiber].memoizedState)
  IN [id |-> entry.id,
      propsChanged |-> propsChanged,
      stateChanged |-> stateChanged,
      wasted |-> (Len(propsChanged) = 0 /\ Len(stateChanged) = 0)]

(* fiber.flags && fiber.flags !== 0 (line 404); an absent flags field is   *)
(* Undefined                                                               *)
DirtyAlways(fiber) == TRUE

Dirty(fiber) == fiber.flags # Undefined /\ fiber.flags # 0

RECURSIVE UpdatesOf(_, _)
UpdatesOf(h, idByFiber) ==
  IF idByFiber = <<>> THEN <<>>
  ELSE (IF Dirty(h[Head(idByFiber).fiber])
        THEN <<UpdateRecord(h, Head(idByFiber))>>
        ELSE <<>>)
       \o UpdatesOf(h, Tail(idByFiber))

(* the second pass started at the root's child instead of the root *)
buildFiberUpdatesBelowRoot(h, rootFiber, maxNodes) ==
  UpdatesOf(h, buildIdMap(h, IF rootFiber = NULLF THEN NULLF ELSE h[rootFiber].child,
                          maxNodes))

buildFiberUpdates(h, rootFiber, maxNodes) ==
  UpdatesOf(h, buildIdMap(h, rootFiber, maxNodes))

(***************************************************************************)
(* The page.                                                               *)
(*   hookPresent   window.__REACT_DEVTOOLS_GLOBAL_HOOK__ exists            *)
(*   installedFlag window.__REACT_DETECTIVE_INSTALLED__                    *)
(*   onCommit      hook.onCommitFiberRoot: no function, the handler the    *)
(*                 page had before any injection, or the wrapper that      *)
(*                 injection number `of` assigned                          *)
(*   renderers     the keys of hook.renderers, in insertion order          *)
(*   fiberRoots    hook.getFiberRoots(rendererID), in insertion order      *)
(*   rootCurrent   for every FiberRoot, its heap and root.current          *)
(*   scripts       one record per execution of page-hook.js in the page:   *)
(*                 the variables of its closure; for its interval timer    *)
(*                 `elapsed` is Date.now() - startedAt at its latest tick   *)
(*                 (0 again once the interval is cleared)                  *)
(*   act           the latest activation of page-hook code, what it        *)
(*                 posted with send(), which calls of the previous         *)
(*                 handler it made and whether it raised to its caller     *)
(*   statusLog     every STATUS posted since the page loaded               *)
(*   calls         the commit notifications so far                         *)
(*   pureIn, pureOut   input and result of the tree builder when it is     *)
(*                 exercised on its own (SpecTree)                         *)
(***************************************************************************)
VARIABLES hookPresent, installedFlag, onCommit, renderers, fiberRoots,
          rootCurrent, scripts, act, statusLog, calls, pureIn, pureOut

pageVars == <<hookPresent, installedFlag, onCommit, renderers, fiberRoots,
              rootCurrent, scripts, act, statusLog, calls>>
pureVars == <<pureIn, pureOut>>
vars == <<hookPresent, installedFlag, onCommit, renderers, fiberRoots,
          rootCurrent, scripts, act, statusLog, calls, pureIn, pureOut>>

RendererIds == 1..MaxRenderers
Roots == 1..MaxRoots
NoRoot == 0

(* the renderer a FiberRoot belongs to *)
RendererOf(root) == ((root - 1) % MaxRenderers) + 1

NoHandler == [kind |-> "none", of |-> 0]
OrigHandler == [kind |-> "orig", of |-> 0]
Wrapper(k) == [kind |-> "wrapper", of |-> k]

(* send (src/page-hook.js:74-76): one posted event.  `by` is the script    *)
(* that posted it and `root` the FiberRoot a graph was built for (0 when   *)
(* none); neither is part of the message.                                  *)
Event(type, payload, by, root) ==
  [type |-> type, payload |-> payload, by |-> by, root |-> root]

NoTs == -1

(* The closure of one execution of page-hook.js. *)
NewScript(outcome) ==
  [outcome |-> outcome,
   polling |-> FALSE,
   elapsed |-> 0,
   originalCommit |-> NoHandler,
   lastCommitTs |-> NoTs,
   rootIds |-> [r \in Roots |-> 0],
   nextRootId |-> 1]

IdleAct == [kind |-> "none", by |-> 0, rendererID |-> 0, root |-> NoRoot, elapsed |-> 0,
            emitted |-> <<>>, origCalls |-> <<>>, raised |-> FALSE]

(***************************************************************************)
(* Fiber trees of the running application.                                 *)
(***************************************************************************)
BaseFiber ==
  [child |-> NULLF, sibling |-> NULLF, alternate |-> NULLF,
   typeKind |-> "null", tag |-> "none",
   ctxDisplayName |-> "", typeDisplayName |-> "", typeName |-> "",
   elDisplayName |-> "", elName |-> "",
   flags |-> 0, memoizedProps |-> NullSnap, memoizedState |-> NullSnap]

Component(name, child, sibling, flags) ==
  [BaseFiber EXCEPT !.typeKind = "function", !.typeName = name,
                    !.child = child, !.sibling = sibling, !.flags = flags,
                    !.memoizedProps = ObjSnap(<<"a">>, <<1>>)]

(* HostRoot -> App -> Item, with the given dirty flags on App and Item *)
AppHeap(appFlags, itemFlags) ==
  [f \in Fibers |->
     IF f = 1 THEN [BaseFiber EXCEPT !.child = 2]
     ELSE IF f = 2 THEN Component("App", 3, NULLF, appFlags)
     ELSE IF f = 3 THEN Component("Item", NULLF, NULLF, itemFlags)
     ELSE BaseFiber]

Tree(h, cur) == [h |-> h, cur |-> cur]

(* The trees a commit may leave in root.current; cur = 0 is a root with no *)
(* current node.                                                           *)
CommitTrees ==
  {Tree(AppHeap(0, 0), NULLF), Tree(AppHeap(0, 0), 1), Tree(AppHeap(4, 1), 1)}

(* performance.now() at the n-th commit notification, in thousandths of a  *)
(* millisecond: one frame of 16.667 ms apart                               *)
FrameMs == 16667
PerfNow(n) == n * FrameMs

(* Number(x.toFixed(2)): x in thousandths of a ms, result in hundredths *)
ToFixed2(x) == (x + 5) \div 10

(***************************************************************************)
(* getRootId (src/page-hook.js:62-65) on a script's closure                *)
(***************************************************************************)
getRootIdScriptNoIncrement(sc, root) ==
  IF sc.rootIds[root] = 0
  THEN [sc EXCEPT !.rootIds[root] = sc.nextRootId]
  ELSE sc

getRootIdScript(sc, root) ==
  IF sc.rootIds[root] = 0
  THEN [sc EXCEPT !.rootIds[root] = sc.nextRootId, !.nextRootId = @ + 1]
  ELSE sc

getRootId(sc, root) == getRootIdScript(sc, root).rootIds[root]

(***************************************************************************)
(* emitFiberGraph (src/page-hook.js:207-216): the run state S carries the  *)
(* scripts, the FiberRoots as they are during the run, the events posted,  *)
(* the calls of the previous handler made and whether an exception is      *)
(* propagating.                                                            *)
(***************************************************************************)
emitFiberGraph(k, rendererID, root, S) ==
  IF root = NoRoot
  THEN [S EXCEPT !.raised = TRUE]           \* root.current on undefined
  ELSE
    LET t == S.rootCurrent[root]
        graph == buildFiberGraph(t.h, t.cur, MAX_NODES)
        sc == getRootIdScript(S.scripts[k], root)
    IN [S EXCEPT
          !.scripts[k] = sc,
          !.emitted = Append(@, Event("FIBER_GRAPH",
                                      [rendererID |-> rendererID,
                                       rootId |-> sc.rootIds[root],
                                       graph |-> graph], k, root))]

(* updates.map((u) => ({ id: u.id })) *)
IdsOf(updates) == [i \in DOMAIN updates |-> [id |-> updates[i].id]]

(***************************************************************************)
(* The patched hook.onCommitFiberRoot (src/page-hook.js:131-161), and the  *)
(* chain of handlers behind it.                                            *)
(***************************************************************************)
SendUpdateAlways(k, updates, S) ==
  [S EXCEPT !.emitted = Append(@, Event("FIBER_UPDATE", IdsOf(updates), k, NoRoot))]

SendUpdate(k, updates, S) ==
  IF Len(updates) # 0
  THEN [S EXCEPT !.emitted = Append(@, Event("FIBER_UPDATE", IdsOf(updates), k, NoRoot))]
  ELSE S

SendMeta(k, commitIntervalMs, updates, S) ==
  [S EXCEPT !.emitted = Append(@, Event("FIBER_META",
                                        [commitIntervalMs |-> commitIntervalMs,
                                         diffs |-> updates], k, NoRoot))]

RECURSIVE CallHandler(_, _, _, _, _)
onCommitFiberRootMetaFirst(k, rendererID, root, ts, S) ==
  LET sc == S.scripts[k]
      commitIntervalMs == IF sc.lastCommitTs = NoTs THEN 0
                          ELSE ToFixed2(ts - sc.lastCommitTs)
      S1 == [S EXCEPT !.scripts[k].lastCommitTs = ts]
      S2 == emitFiberGraph(k, rendererID, root, S1)
  IN IF S2.raised THEN S2
     ELSE
       LET t == S.rootCurrent[root]
           updates == buildFiberUpdates(t.h, t.cur, MAX_NODES)
           S3 == SendMeta(k, commitIntervalMs, updates, S2)
           S4 == SendUpdate(k, updates, S3)
       IN CallHandler(sc.originalCommit, rendererID, root, ts, S4)

onCommitFiberRoot(k, rendererID, root, ts, S) ==
  LET sc == S.scripts[k]
      commitIntervalMs == IF sc.lastCommitTs = NoTs THEN 0
                          ELSE ToFixed2(ts - sc.lastCommitTs)
      S1 == [S EXCEPT !.scripts[k].lastCommitTs = ts]
      S2 == emitFiberGraph(k, rendererID, root, S1)
  IN IF S2.raised THEN S2
     ELSE
       LET t == S.rootCurrent[root]
           updates == buildFiberUpdates(t.h, t.cur, MAX_NODES)
           S3 == SendUpdate(k, updates, S2)
           S4 == SendMeta(k, commitIntervalMs, updates, S3)
       IN CallHandler(sc.originalCommit, rendererID, root, ts, S4)

CallHandler(ref, rendererID, root, ts, S) ==
  IF ref.kind = "none" THEN S
  ELSE IF ref.kind = "orig"
  THEN [S EXCEPT !.origCalls = Append(@, [rendererID |-> rendererID, root |-> root])]
  ELSE onCommitFiberRoot(ref.of, rendererID, root, ts, S)

RunStateOn(rc) ==
  [scripts |-> scripts, rootCurrent |-> rc, emitted |-> <<>>, origCalls |-> <<>>,
   raised |-> FALSE]

RunState == RunStateOn(rootCurrent)

ActOf(kind, by, rendererID, root, elapsed, S) ==
  [kind |-> kind, by |-> by, rendererID |-> rendererID, root |-> root,
   elapsed |-> elapsed,
   emitted |-> S.emitted, origCalls |-> S.origCalls, raised |-> S.raised]

(* the STATUS events among the posted ones, as log entries *)
RECURSIVE StatusEntries(_)
StatusEntries(emitted) ==
  IF emitted = <<>> THEN <<>>
  ELSE (IF Head(emitted).type = "STATUS"
        THEN <<[by |-> Head(emitted).by, payload |-> Head(emitted).payload]>>
        ELSE <<>>)
       \o StatusEntries(Tail(emitted))

(***************************************************************************)
(* alreadyInstalled (src/page-hook.js:84-88): the answer and the flag it   *)
(* leaves behind.                                                          *)
(***************************************************************************)
alreadyInstalledNever(flag) == [result |-> FALSE, flag |-> TRUE]

alreadyInstalledNoSet(flag) == [result |-> flag, flag |-> flag]

alreadyInstalled(flag) ==
  IF flag THEN [result |-> TRUE, flag |-> flag]
  ELSE [result |-> FALSE, flag |-> TRUE]

(***************************************************************************)
(* One execution of page-hook.js in the page, as script number k           *)
(* (src/page-hook.js:94-131, 169-172): what it leaves behind, given        *)
(* whether the hook exists, the installed flag and the current             *)
(* hook.onCommitFiberRoot.                                                 *)
(***************************************************************************)
pageHookRunGuardFirst(k, hook, flag, handler) ==
  LET a == alreadyInstalled(flag)
  IN IF a.result
     THEN [script |-> NewScript("DUPLICATE"), flag |-> a.flag, onCommit |-> handler,
           emitted |-> <<>>]
     ELSE IF ~hook
     THEN [script |-> NewScript("NO_HOOK"), flag |-> a.flag, onCommit |-> handler,
           emitted |-> <<Event("STATUS", "NO_HOOK", k, NoRoot)>>]
     ELSE [script |-> [NewScript("PATCHED") EXCEPT
                         !.originalCommit = handler, !.polling = TRUE, !.elapsed = 0],
           flag |-> a.flag, onCommit |-> Wrapper(k), emitted |-> <<>>]

pageHookRun(k, hook, flag, handler) ==
  IF ~hook
  THEN \* lines 97-100
       [script |-> NewScript("NO_HOOK"), flag |-> flag, onCommit |-> handler,
        emitted |-> <<Event("STATUS", "NO_HOOK", k, NoRoot)>>]
  ELSE LET a == alreadyInstalled(flag)
       IN IF a.result
          THEN \* line 103
               [script |-> NewScript("DUPLICATE"), flag |-> a.flag,
                onCommit |-> handler, emitted |-> <<>>]
          ELSE \* lines 109-131: originalCommit, the poll (170-172), the patch
               [script |-> [NewScript("PATCHED") EXCEPT
                              !.originalCommit = handler,
                              !.polling = TRUE,
                              !.elapsed = 0],
                flag |-> a.flag, onCommit |-> Wrapper(k), emitted |-> <<>>]

(* chrome.scripting.executeScript of page-hook.js (src/background.js:53-57) *)
Inject ==
  /\ Len(scripts) < MaxInjects
  /\ LET k == Len(scripts) + 1
         r == pageHookRun(k, hookPresent, installedFlag, onCommit)
         S == [RunState EXCEPT !.emitted = r.emitted]
     IN /\ scripts' = Append(scripts, r.script)
        /\ installedFlag' = r.flag
        /\ onCommit' = r.onCommit
        /\ act' = ActOf("inject", k, 0, NoRoot, 0, S)
        /\ statusLog' = statusLog \o StatusEntries(S.emitted)
  /\ UNCHANGED <<hookPresent, renderers, fiberRoots, rootCurrent, calls>>
  /\ UNCHANGED pureVars

(***************************************************************************)
(* emitAllRoots (src/page-hook.js:193-199)                                 *)
(***************************************************************************)
RECURSIVE EmitRoots(_, _, _, _)
EmitRoots(k, rendererID, roots, S) ==
  IF roots = <<>> \/ S.raised THEN S
  ELSE EmitRoots(k, rendererID, Tail(roots),
                 emitFiberGraph(k, rendererID, Head(roots), S))

RECURSIVE EmitRenderers(_, _, _)
EmitRenderers(k, rs, S) ==
  IF rs = <<>> \/ S.raised THEN S
  ELSE EmitRenderers(k, Tail(rs), EmitRoots(k, Head(rs), fiberRoots[Head(rs)], S))

emitAllRoots(k, S) == EmitRenderers(k, renderers, S)

(* the onReady callback, lines 116-120 *)
onReady(k, S) ==
  LET S1 == emitAllRoots(k, S)
  IN IF S1.raised THEN S1
     ELSE [S1 EXCEPT !.emitted = Append(@, Event("STATUS", "REACT_READY", k, NoRoot))]

(***************************************************************************)
(* One tick of the interval that waitForReactRenderers started             *)
(* (src/page-hook.js:172-185).  Ticks are POLL_MS apart; clearInterval     *)
(* ends them.                                                              *)
(***************************************************************************)
TimedOutAtOnce(elapsed) == elapsed >= 0

TimedOut(elapsed) == elapsed > TIMEOUT_MS

hasRenderers == Len(renderers) > 0

clearIntervalNoop(k, S) == S

clearInterval(k, S) == [S EXCEPT !.scripts[k].polling = FALSE, !.scripts[k].elapsed = 0]

TickBodyTimeoutFirst(k, elapsed, S) ==
  IF TimedOut(elapsed)
  THEN [clearInterval(k, S) EXCEPT
          !.emitted = Append(@, Event("STATUS", "NO_REACT", k, NoRoot))]
  ELSE IF hasRenderers
  THEN onReady(k, clearInterval(k, S))
  ELSE S

TickBody(k, elapsed, S) ==
  IF hasRenderers
  THEN onReady(k, clearInterval(k, S))
  ELSE IF TimedOut(elapsed)
  THEN [clearInterval(k, S) EXCEPT
          !.emitted = Append(@, Event("STATUS", "NO_REACT", k, NoRoot))]
  ELSE S

Tick(k) ==
  /\ k \in DOMAIN scripts
  /\ scripts[k].polling
  /\ LET elapsed == scripts[k].elapsed + POLL_MS
         S == TickBody(k, elapsed, [RunState EXCEPT !.scripts[k].elapsed = elapsed])
     IN /\ scripts' = S.scripts
        /\ act' = ActOf("tick", k, 0, NoRoot, elapsed, S)
        /\ statusLog' = statusLog \o StatusEntries(S.emitted)
  /\ UNCHANGED <<hookPresent, installedFlag, onCommit, renderers, fiberRoots,
                 rootCurrent, calls>>
  /\ UNCHANGED pureVars

(***************************************************************************)
(* The host framework.                                                     *)
(***************************************************************************)

(* A renderer registers with the hook (hook.inject hands out the ids 1,    *)
(* 2, ... and adds to hook.renderers, which line 173 reads).  While a      *)
(* poll runs it does so before the first tick or between the last tick     *)
(* within the timeout and the first one past it.                           *)
RegisterInstants == {0, TIMEOUT_MS}

RegisterRenderer(id) ==
  /\ hookPresent
  /\ id = Len(renderers) + 1
  /\ \A k \in DOMAIN scripts : scripts[k].polling => scripts[k].elapsed \in RegisterInstants
  /\ renderers' = Append(renderers, id)
  /\ UNCHANGED <<hookPresent, installedFlag, onCommit, fiberRoots, rootCurrent,
                 scripts, act, statusLog, calls>>
  /\ UNCHANGED pureVars

(* A commit of `root` by renderer `rendererID`: the framework leaves the   *)
(* tree `tree` in root.current, the hook knows the root from now on, and   *)
(* hook.onCommitFiberRoot(rendererID, root) is called if it is a function. *)
Commit(rendererID, root, tree) ==
  /\ hookPresent
  /\ rendererID = RendererOf(root)
  /\ calls < MaxCalls
  /\ rendererID \in SeqToSet(renderers)
  /\ calls' = calls + 1
  /\ rootCurrent' = [rootCurrent EXCEPT ![root] = tree]
  /\ fiberRoots' = [fiberRoots EXCEPT ![rendererID] =
                      IF root \in SeqToSet(@) THEN @ ELSE Append(@, root)]
  /\ LET S == CallHandler(onCommit, rendererID, root, PerfNow(calls'), RunStateOn(rootCurrent'))
     IN /\ scripts' = S.scripts
        /\ act' = ActOf("commit", onCommit.of, rendererID, root, 0, S)
        /\ statusLog' = statusLog \o StatusEntries(S.emitted)
  /\ UNCHANGED <<hookPresent, installedFlag, onCommit, renderers>>
  /\ UNCHANGED pureVars

(* hook.onCommitFiberRoot called with no root object (root undefined):     *)
(* the callback is a property of a page global, any script may call it.    *)
CommitWithoutRoot(rendererID) ==
  /\ hookPresent
  /\ calls < MaxCalls
  /\ onCommit.kind # "none"
  /\ calls' = calls + 1
  /\ LET S == CallHandler(onCommit, rendererID, NoRoot, PerfNow(calls'), RunState)
     IN /\ scripts' = S.scripts
        /\ act' = ActOf("commit", onCommit.of, rendererID, NoRoot, 0, S)
        /\ statusLog' = statusLog \o StatusEntries(S.emitted)
  /\ UNCHANGED <<hookPresent, installedFlag, onCommit, renderers, fiberRoots,
                 rootCurrent>>
  /\ UNCHANGED pureVars

(***************************************************************************)
(* The page after it loaded, before any injection.                         *)
(***************************************************************************)
NoPure == [h |-> AppHeap(0, 0), cur |-> NULLF, budget |-> 0]
NoGraph == [nodes |-> <<>>, edges |-> <<>>]
NoOut == [done |-> FALSE, graph |-> NoGraph, idMap |-> <<>>,
          touched |-> NULLF, again |-> FALSE, idMapAgain |-> <<>>, graphAgain |-> NoGraph]

InitPage ==
  /\ hookPresent \in BOOLEAN
  /\ installedFlag = FALSE
  /\ onCommit \in (IF hookPresent THEN {NoHandler, OrigHandler} ELSE {NoHandler})
  /\ renderers = <<>>
  /\ fiberRoots = [r \in RendererIds |-> <<>>]
  /\ rootCurrent = [r \in Roots |-> Tree(AppHeap(0, 0), NULLF)]
  /\ scripts = <<>>
  /\ act = IdleAct
  /\ statusLog = <<>>
  /\ calls = 0

Init ==
  /\ InitPage
  /\ pureIn = NoPure
  /\ pureOut = NoOut

(***************************************************************************)
(* The tree builder on its own: buildIdMap / buildFiberGraph applied to a  *)
(* heap, a root fiber and a budget.                                        *)
(***************************************************************************)

(* Links of fiber f: null, a later fiber, or back to fiber 1, which closes  *)
(* a cycle.                                                                *)
ChildTargets(f) == {NULLF, 1} \cup {g \in Fibers : g > f}
SiblingTargets(f) == {NULLF, 1} \cup {g \in Fibers : g > f}

PureFiber(child, sibling, kind) ==
  [BaseFiber EXCEPT !.child = child, !.sibling = sibling, !.typeKind = kind,
                    !.typeName = IF kind = "function" THEN "A" ELSE ""]

PureKinds(f) == IF f = 1 THEN {"null"} ELSE {"function", "string"}

PureHeaps ==
  {[f \in Fibers |-> PureFiber(c[f], s[f], k[f])] :
     c \in {x \in [Fibers -> FiberRefs] : \A f \in Fibers : x[f] \in ChildTargets(f)},
     s \in {x \in [Fibers -> FiberRefs] : \A f \in Fibers : x[f] \in SiblingTargets(f)},
     k \in {x \in [Fibers -> {"null", "function", "string"}] :
              \A f \in Fibers : x[f] \in PureKinds(f)}}

(* small budgets, which cut a pass short, and the budget the hook uses *)
Budgets == (0..MaxBudget) \cup {MAX_NODES}

InitTree ==
  /\ hookPresent = FALSE
  /\ installedFlag = FALSE
  /\ onCommit = NoHandler
  /\ renderers = <<>>
  /\ fiberRoots = [r \in RendererIds |-> <<>>]
  /\ rootCurrent = [r \in Roots |-> Tree(AppHeap(0, 0), NULLF)]
  /\ scripts = <<>>
  /\ act = IdleAct
  /\ statusLog = <<>>
  /\ calls = 0
  /\ pureIn \in {[h |-> h, cur |-> 1, budget |-> b] : h \in PureHeaps, b \in Budgets}
              \cup {[NoPure EXCEPT !.budget = b] : b \in Budgets}
  /\ pureOut = NoOut

BuildGraph ==
  /\ ~pureOut.done
  /\ pureOut' = [pureOut EXCEPT
                   !.done = TRUE,
                   !.graph = buildFiberGraph(pureIn.h, pureIn.cur, pureIn.budget),
                   !.idMap = buildIdMap(pureIn.h, pureIn.cur, pureIn.budget)]
  /\ UNCHANGED pureIn
  /\ UNCHANGED pageVars

NextTree == BuildGraph

SpecTree == InitTree /\ [][NextTree]_vars

(***************************************************************************)
(* The tree builder on fiber trees as the framework builds them: every     *)
(* fiber but the root has one parent link (it is the first child of one    *)
(* fiber or the next sibling of one fiber), the root fiber has no sibling. *)
(* Fibers are numbered in child-then-sibling order; a tree is given by the *)
(* depth of each fiber.                                                    *)
(***************************************************************************)
TreeFibers == 1..MaxTreeFibers

TreeDepths ==
  {d \in [TreeFibers -> 0..(MaxTreeFibers - 1)] :
     /\ d[1] = 0
     /\ \A f \in TreeFibers : f > 1 => (d[f] >= 1 /\ d[f] <= d[f - 1] + 1)}

(* fiber.child: the next fiber, if it is one level deeper *)
ChildOf(d, f) ==
  IF f < MaxTreeFibers /\ d[f + 1] = d[f] + 1 THEN f + 1 ELSE NULLF

(* fiber.sibling: the next fiber of the same depth, unless a shallower     *)
(* fiber comes first                                                       *)
SiblingOf(d, f) ==
  LET later == {g \in TreeFibers : g > f /\ d[g] <= d[f]}
  IN IF later = {} THEN NULLF
     ELSE LET g == CHOOSE x \in later : \A y \in later : x <= y
          IN IF d[g] = d[f] THEN g ELSE NULLF

(* a fiber of the tree: a component named `kind`, or a host fiber *)
TreeFiber(child, sibling, kind) ==
  IF kind = "host"
  THEN [BaseFiber EXCEPT !.child = child, !.sibling = sibling, !.typeKind = "string"]
  ELSE [BaseFiber EXCEPT !.child = child, !.sibling = sibling,
                         !.typeKind = "function", !.typeName = kind,
                         !.memoizedProps = ObjSnap(<<"a">>, <<1>>)]

TreeKinds(f) == IF f = 1 THEN {"host", "A"} ELSE {"host", "A", "B"}

TreeHeaps ==
  {[f \in TreeFibers |-> TreeFiber(ChildOf(d, f), SiblingOf(d, f), k[f])] :
     d \in TreeDepths,
     k \in {x \in [TreeFibers -> {"host", "A", "B"}] :
              \A f \in TreeFibers : x[f] \in TreeKinds(f)}}

(* App -> (Navbar, Page -> (Item, Item)) *)
ScenarioHeap ==
  [f \in TreeFibers |->
     IF f = 1 THEN TreeFiber(2, NULLF, "App")
     ELSE IF f = 2 THEN TreeFiber(NULLF, 3, "Navbar")
     ELSE IF f = 3 THEN TreeFiber(4, NULLF, "Page")
     ELSE IF f = 4 THEN TreeFiber(NULLF, 5, "Item")
     ELSE IF f = 5 THEN TreeFiber(NULLF, NULLF, "Item")
     ELSE BaseFiber]

TreeBudgets == {MaxBudget, MAX_NODES}

InitIds ==
  /\ hookPresent = FALSE
  /\ installedFlag = FALSE
  /\ onCommit = NoHandler
  /\ renderers = <<>>
  /\ fiberRoots = [r \in RendererIds |-> <<>>]
  /\ rootCurrent = [r \in Roots |-> Tree(AppHeap(0, 0), NULLF)]
  /\ scripts = <<>>
  /\ act = IdleAct
  /\ statusLog = <<>>
  /\ calls = 0
  /\ pureIn \in {[h |-> h, cur |-> 1, budget |-> b] :
                   h \in TreeHeaps \cup {ScenarioHeap}, b \in TreeBudgets}
  /\ pureOut = NoOut

(* the first pass: buildFiberGraph(root.current, budget), line 208 *)
FirstPass ==
  /\ ~pureOut.done
  /\ pureOut' = [pureOut EXCEPT
                   !.done = TRUE,
                   !.graph = buildFiberGraph(pureIn.h, pureIn.cur, pureIn.budget),
                   !.idMap = buildIdMap(pureIn.h, pureIn.cur, pureIn.budget)]
  /\ UNCHANGED pureIn
  /\ UNCHANGED pageVars

(* Between two passes the framework re-renders fiber f in place: its dirty *)
(* flags and its props change, the nodes, names and links do not.          *)
Rerender(f) ==
  /\ pureOut.done
  /\ ~pureOut.again
  /\ pureOut.touched = NULLF
  /\ pureIn' = [pureIn EXCEPT !.h[f].flags = 4,
                              !.h[f].memoizedProps = ObjSnap(<<"a">>, <<2>>)]
  /\ pureOut' = [pureOut EXCEPT !.touched = f]
  /\ UNCHANGED pageVars

(* the next pass over the same tree: buildFiberUpdates' own buildIdMap     *)
(* call of the same commit (line 141), or the next commit's                *)
SecondPass ==
  /\ pureOut.done
  /\ ~pureOut.again
  /\ pureOut' = [pureOut EXCEPT
                   !.again = TRUE,
                   !.graphAgain = buildFiberGraph(pureIn.h, pureIn.cur, pureIn.budget),
                   !.idMapAgain = buildIdMap(pureIn.h, pureIn.cur, pureIn.budget)]
  /\ UNCHANGED pureIn
  /\ UNCHANGED pageVars

NextIds ==
  \/ FirstPass
  \/ \E f \in TreeFibers : Rerender(f)
  \/ SecondPass

SpecIds == InitIds /\ [][NextIds]_vars

(***************************************************************************)
(* shallowDiff on its own, over snapshots with up to two keys in either    *)
(* insertion order; a value is a number or undefined.                      *)
(***************************************************************************)
KeyOrders == {<<>>, <<"a">>, <<"b">>, <<"a", "b">>, <<"b", "a">>}
Values == {Undefined} \cup (1..MaxVal)

Snaps ==
  {NullSnap} \cup
  UNION {{ObjSnap(ks, v) : v \in [DOMAIN ks -> Values]} : ks \in KeyOrders}

NoDiff == [done |-> FALSE, changed |-> <<>>]

InitDiff ==
  /\ hookPresent = FALSE
  /\ installedFlag = FALSE
  /\ onCommit = NoHandler
  /\ renderers = <<>>
  /\ fiberRoots = [r \in RendererIds |-> <<>>]
  /\ rootCurrent = [r \in Roots |-> Tree(AppHeap(0, 0), NULLF)]
  /\ scripts = <<>>
  /\ act = IdleAct
  /\ statusLog = <<>>
  /\ calls = 0
  /\ pureIn \in {[prev |-> p, next |-> n] : p \in Snaps, n \in Snaps}
  /\ pureOut = NoDiff

(* shallowDiff(alt?.memoizedProps, fiber.memoizedProps), lines 407-408 *)
Diff ==
  /\ ~pureOut.done
  /\ pureOut' = [done |-> TRUE, changed |-> shallowDiff(pureIn.prev, pureIn.next)]
  /\ UNCHANGED pureIn
  /\ UNCHANGED pageVars

NextDiff == Diff

SpecDiff == InitDiff /\ [][NextDiff]_vars

(***************************************************************************)
(* buildFiberUpdates on its own: a host root (fiber 1) over a component X  *)
(* (fiber 2) over a component or host fiber Y (fiber 3); fiber 4 is the    *)
(* alternate of X when X was rendered before.                              *)
(***************************************************************************)
SmallSnaps ==
  {NullSnap, ObjSnap(<<>>, <<>>), ObjSnap(<<"a">>, <<1>>), ObjSnap(<<"a">>, <<2>>),
   ObjSnap(<<"a", "b">>, <<1, 1>>)}

FlagValues == {Undefined, 0, 4}

UpdRoot == 1
UpdX == 2
UpdY == 3
UpdAlt == 4

UpdHeap(rootFlags, x, alt, yKind, yFlags) ==
  [f \in UpdRoot..UpdAlt |->
     IF f = UpdRoot
     THEN [BaseFiber EXCEPT !.child = UpdX, !.flags = rootFlags,
                            !.memoizedState = ObjSnap(<<"element">>, <<1>>)]
     ELSE IF f = UpdX
     THEN [BaseFiber EXCEPT !.child = UpdY, !.typeKind = "function", !.typeName = "X",
                            !.flags = x.flags, !.alternate = x.alternate,
                            !.memoizedProps = x.props, !.memoizedState = x.state]
     ELSE IF f = UpdY
     THEN [BaseFiber EXCEPT !.typeKind = yKind,
                            !.typeName = IF yKind = "function" THEN "Y" ELSE "",
                            !.flags = yFlags,
                            !.memoizedProps = ObjSnap(<<"a">>, <<1>>)]
     ELSE [BaseFiber EXCEPT !.typeKind = "function", !.typeName = "X",
                            !.alternate = UpdX,
                            !.memoizedProps = alt.props, !.memoizedState = alt.state]]

UpdHeaps ==
  {UpdHeap(rf, x, alt, yk, yf) :
     rf \in {0, 4},
     x \in [flags : FlagValues, alternate : {NULLF, UpdAlt},
            props : SmallSnaps, state : SmallSnaps],
     alt \in [props : SmallSnaps, state : SmallSnaps],
     yk \in {"function", "string"},
     yf \in {0, 4}}

NoUpdates == [done |-> FALSE, updates |-> <<>>, idMap |-> <<>>]

InitUpdates ==
  /\ hookPresent = FALSE
  /\ installedFlag = FALSE
  /\ onCommit = NoHandler
  /\ renderers = <<>>
  /\ fiberRoots = [r \in RendererIds |-> <<>>]
  /\ rootCurrent = [r \in Roots |-> Tree(AppHeap(0, 0), NULLF)]
  /\ scripts = <<>>
  /\ act = IdleAct
  /\ statusLog = <<>>
  /\ calls = 0
  /\ pureIn \in {[h |-> h, cur |-> UpdRoot, budget |-> b] :
                   h \in {g \in UpdHeaps :
                            g[UpdX].alternate = NULLF =>
                              (g[UpdAlt].memoizedProps = NullSnap
                               /\ g[UpdAlt].memoizedState = NullSnap)},
                   b \in TreeBudgets}
  /\ pureOut = NoUpdates

(* buildFiberUpdates(root.current, budget), line 141 *)
ClassifyUpdates ==
  /\ ~pureOut.done
  /\ pureOut' = [done |-> TRUE,
                 updates |-> buildFiberUpdates(pureIn.h, pureIn.cur, pureIn.budget),
                 idMap |-> buildIdMap(pureIn.h, pureIn.cur, pureIn.budget)]
  /\ UNCHANGED pureIn
  /\ UNCHANGED pageVars

NextUpdates == ClassifyUpdates

SpecUpdates == InitUpdates /\ [][NextUpdates]_vars

Next ==
  \/ Inject
  \/ \E k \in 1..MaxInjects : Tick(k)
  \/ \E id \in RendererIds : RegisterRenderer(id)
  \/ \E id \in RendererIds, root \in Roots, tree \in CommitTrees : Commit(id, root, tree)
  \/ \E id \in RendererIds : CommitWithoutRoot(id)

Spec == Init /\ [][Next]_vars

(* A tick of script k is possible exactly while its interval is not cleared, *)
(* and every tick changes the script (elapsed grows or polling stops).      *)
PollRuns(k) == k \in DOMAIN scripts /\ scripts[k].polling

(* setInterval keeps firing while the interval is not cleared: weak          *)
(* fairness of Tick(k), written out with ENABLED <<Tick(k)>>_vars replaced   *)
(* by its value PollRuns(k).                                                 *)
FairSpec ==
  Spec /\ \A k \in 1..MaxInjects : ([]<>~PollRuns(k) \/ []<><<Tick(k)>>_vars)

(***************************************************************************)
(* Vocabulary of the properties.                                           *)
(***************************************************************************)
TypesOf(emitted) == [i \in DOMAIN emitted |-> emitted[i].type]

CountType(emitted, type) == Cardinality({i \in DOMAIN emitted : emitted[i].type = type})

(* the STATUS payloads script k posted since the page loaded *)
StatusesBy(k) ==
  LET mine == SelectSeq(statusLog, LAMBDA e : e.by = k)
  IN [i \in DOMAIN mine |-> mine[i].payload]

Logged(k, payload) == \E i \in DOMAIN statusLog :
                        statusLog[i].by = k /\ statusLog[i].payload = payload

StatusLogged(payload) == \E i \in DOMAIN statusLog : statusLog[i].payload = payload

GraphsPosted(emitted) ==
  LET gs == SelectSeq(emitted, LAMBDA e : e.type = "FIBER_GRAPH")
  IN [i \in DOMAIN gs |-> [rendererID |-> gs[i].payload.rendererID, root |-> gs[i].root]]

StatusesPosted(emitted) ==
  LET st == SelectSeq(emitted, LAMBDA e : e.type = "STATUS")
  IN [i \in DOMAIN st |-> st[i].payload]

PatchedScripts == {k \in DOMAIN scripts : scripts[k].outcome = "PATCHED"}

(* the latest activation was a commit notification for a FiberRoot that    *)
(* reached a wrapper installed by page-hook.js                             *)
FrameworkCommitHandled ==
  act.kind = "commit" /\ act.root # NoRoot /\ act.by \in PatchedScripts

(* the latest activation was any call of the patched callback *)
PatchedCallbackCalled == act.kind = "commit" /\ act.by \in PatchedScripts

(* the events came from a commit notification *)
CommitDrivenEvents == act.kind = "commit" /\ act.emitted # <<>>

(***************************************************************************)
(* C1: the events one commit notification makes the patched callback post  *)
(* are, in this order, one FIBER_GRAPH for the committing root, then       *)
(* FIBER_UPDATE if there is one, then one FIBER_META.                      *)
(***************************************************************************)
C1_CommitEventOrder ==
  FrameworkCommitHandled =>
    /\ TypesOf(act.emitted) \in {<<"FIBER_GRAPH", "FIBER_META">>,
                                 <<"FIBER_GRAPH", "FIBER_UPDATE", "FIBER_META">>}
    /\ act.emitted[1].root = act.root
    /\ act.emitted[1].payload.rendererID = act.rendererID

C1_Witness ==
  /\ FrameworkCommitHandled
  /\ TypesOf(act.emitted) = <<"FIBER_GRAPH", "FIBER_UPDATE", "FIBER_META">>

(***************************************************************************)
(* C2: every call of the patched callback calls the previous handler, if   *)
(* the page had one, exactly once with the call's own arguments, and       *)
(* raises nothing to its caller, whatever happens while the graph and the  *)
(* updates are built.                                                      *)
(***************************************************************************)
C2_OriginalAlwaysCalled ==
  PatchedCallbackCalled =>
    /\ ~act.raised
    /\ scripts[act.by].originalCommit = OrigHandler =>
         act.origCalls = <<[rendererID |-> act.rendererID, root |-> act.root]>>

(***************************************************************************)
(* C3: however often page-hook.js is injected into a page that has the     *)
(* hook, the callback is wrapped once and stays wrapped, one poll is       *)
(* started, and a framework commit posts one FIBER_GRAPH and one           *)
(* FIBER_META and calls the previous handler once.                         *)
(***************************************************************************)
C3_PatchedOnce ==
  /\ Cardinality(PatchedScripts) <= 1
  /\ Cardinality({k \in DOMAIN scripts : scripts[k].polling}) <= 1
  /\ \A k \in PatchedScripts :
       /\ installedFlag
       /\ onCommit = Wrapper(k)
       /\ scripts[k].originalCommit.kind # "wrapper"
  /\ (hookPresent /\ scripts # <<>>) => PatchedScripts = {1}
  /\ FrameworkCommitHandled =>
       /\ CountType(act.emitted, "FIBER_GRAPH") = 1
       /\ CountType(act.emitted, "FIBER_META") = 1
       /\ Len(act.origCalls) =
            (IF scripts[act.by].originalCommit = OrigHandler THEN 1 ELSE 0)

C3_Witness ==
  /\ Len(scripts) = MaxInjects
  /\ scripts[Len(scripts)].outcome = "DUPLICATE"
  /\ FrameworkCommitHandled
  /\ Len(act.origCalls) = 1

(***************************************************************************)
(* C4: one execution of page-hook.js posts at most one STATUS, one of      *)
(* NO_HOOK, NO_REACT, REACT_READY, and its poll is over once it has.       *)
(***************************************************************************)
C4_OneStatusPerAttach ==
  \A k \in DOMAIN scripts :
    /\ Len(StatusesBy(k)) <= 1
    /\ \A i \in DOMAIN StatusesBy(k) :
         StatusesBy(k)[i] \in {"NO_HOOK", "NO_REACT", "REACT_READY"}
    /\ StatusesBy(k) # <<>> => ~scripts[k].polling
    /\ scripts[k].polling => scripts[k].elapsed <= TIMEOUT_MS

C4_Witness ==
  \E k \in DOMAIN scripts : StatusesBy(k) = <<"REACT_READY">> /\ calls > 0

(***************************************************************************)
(* C5 as stated: over one page load, with any number of injections, at     *)
(* most one STATUS is posted in total, also when the hook is absent.       *)
(***************************************************************************)
C5_AtMostOneStatusEver == Len(statusLog) <= 1

(***************************************************************************)
(* C5 amended: with the hook present at most one STATUS is posted over     *)
(* all injections and one poll is started; with the hook absent every      *)
(* injection posts NO_HOOK again, one per injection.                       *)
(***************************************************************************)
C5_OneSequencePerPage ==
  /\ hookPresent =>
       /\ Len(statusLog) <= 1
       /\ \A i \in DOMAIN statusLog : statusLog[i].by = 1
       /\ \A k \in DOMAIN scripts : k > 1 => scripts[k].outcome = "DUPLICATE"
  /\ ~hookPresent =>
       statusLog = [k \in DOMAIN scripts |-> [by |-> k, payload |-> "NO_HOOK"]]

C5_Witness ==
  /\ ~hookPresent
  /\ Len(scripts) = MaxInjects
  /\ Len(statusLog) = MaxInjects

(***************************************************************************)
(* C6: a poll that never sees a renderer within the timeout posts          *)
(* NO_REACT at the first tick more than TIMEOUT_MS after its start and at  *)
(* no earlier one, posts nothing else, and never ticks again, also when a  *)
(* renderer registers later; while no renderer is registered a running     *)
(* poll does reach that tick.                                              *)
(***************************************************************************)
C6_TimeoutState ==
  /\ \A k \in DOMAIN scripts :
       Logged(k, "NO_REACT") => (StatusesBy(k) = <<"NO_REACT">> /\ ~scripts[k].polling)
  /\ (act.kind = "tick" /\ StatusesPosted(act.emitted) = <<"NO_REACT">>) =>
       /\ act.elapsed = TIMEOUT_MS + POLL_MS
       /\ Len(act.emitted) = 1
  /\ (act.kind = "tick" /\ act.elapsed > TIMEOUT_MS) => act.emitted # <<>>
  /\ \A k \in DOMAIN scripts : scripts[k].polling => scripts[k].elapsed <= TIMEOUT_MS

C6_NoTickAfterTimeout ==
  \A k \in 1..MaxInjects :
    Logged(k, "NO_REACT") =>
      /\ ~scripts'[k].polling
      /\ StatusesBy(k)' = StatusesBy(k)
      /\ ~(act'.kind = "tick" /\ act'.by = k /\ act' # act)

C6_Timeout ==
  /\ []C6_TimeoutState
  /\ [][C6_NoTickAfterTimeout]_vars
  /\ \A k \in 1..MaxInjects :
       (k \in DOMAIN scripts /\ scripts[k].polling)
         ~> (Logged(k, "NO_REACT") \/ renderers # <<>>)

C6_Witness ==
  /\ Logged(1, "NO_REACT")
  /\ renderers # <<>>
  /\ act.kind = "commit"

(***************************************************************************)
(* C7: a tick that finds a renderer registered posts one REACT_READY and   *)
(* one FIBER_GRAPH for every root of every registered renderer, and ends   *)
(* the poll, also when that tick is past the timeout.                      *)
(***************************************************************************)
RECURSIVE KnownRoots(_)
KnownRoots(rs) ==
  IF rs = <<>> THEN <<>>
  ELSE [i \in DOMAIN fiberRoots[Head(rs)] |->
          [rendererID |-> Head(rs), root |-> fiberRoots[Head(rs)][i]]]
       \o KnownRoots(Tail(rs))

C7_ReadyStep ==
  \A k \in 1..MaxInjects :
    (Tick(k) /\ renderers # <<>>) =>
      /\ StatusesPosted(act'.emitted) = <<"REACT_READY">>
      /\ GraphsPosted(act'.emitted) = KnownRoots(renderers)
      /\ Len(act'.emitted) = Len(KnownRoots(renderers)) + 1
      /\ \A i \in DOMAIN act'.emitted :
           act'.emitted[i].type = "FIBER_GRAPH" =>
             act'.emitted[i].payload.graph =
               buildFiberGraph(rootCurrent[act'.emitted[i].root].h,
                               rootCurrent[act'.emitted[i].root].cur, MAX_NODES)
      /\ ~scripts'[k].polling

C7_ReadinessSuccess == [][C7_ReadyStep]_vars

C7_Witness ==
  /\ act.kind = "tick"
  /\ act.elapsed > TIMEOUT_MS
  /\ StatusesPosted(act.emitted) = <<"REACT_READY">>
  /\ Len(GraphsPosted(act.emitted)) = 2

(***************************************************************************)
(* C8: without the hook an execution of page-hook.js posts NO_HOOK and     *)
(* does nothing else: no poll, no installed flag, no patch, no FIBER_*     *)
(* event.                                                                  *)
(***************************************************************************)
C8_NoHook ==
  ~hookPresent =>
    /\ ~installedFlag
    /\ onCommit = NoHandler
    /\ \A k \in DOMAIN scripts :
         /\ scripts[k] = NewScript("NO_HOOK")
         /\ StatusesBy(k) = <<"NO_HOOK">>
    /\ act.kind = "inject" => act.emitted = <<Event("STATUS", "NO_HOOK", act.by, NoRoot)>>
    /\ act.kind \in {"none", "inject"}

C8_Witness == ~hookPresent /\ act.kind = "inject" /\ Len(scripts) = 1

(***************************************************************************)
(* C9 as stated: commit-driven events are posted only after REACT_READY    *)
(* has been posted, and never after NO_REACT.                              *)
(***************************************************************************)
C9_CommitEventsOnlyWhenReady ==
  CommitDrivenEvents => (StatusLogged("REACT_READY") /\ ~StatusLogged("NO_REACT"))

(***************************************************************************)
(* C9 amended: the callback is wrapped by the attach itself, in the step   *)
(* that sets the installed flag and starts the poll, whatever the poll     *)
(* finds later; commit-driven events are posted only by that wrapper,      *)
(* hence only after the attach.                                            *)
(***************************************************************************)
C9_WrappedAtAttach ==
  /\ \A k \in PatchedScripts : onCommit = Wrapper(k) /\ installedFlag
  /\ installedFlag => PatchedScripts # {}
  /\ CommitDrivenEvents =>
       /\ installedFlag
       /\ act.by \in PatchedScripts
       /\ \A i \in DOMAIN act.emitted :
            act.emitted[i].by = act.by /\ act.emitted[i].type # "STATUS"

C9_Witness ==
  /\ CommitDrivenEvents
  /\ scripts[act.by].polling
  /\ statusLog = <<>>

(***************************************************************************)
(* C10: buildFiberGraph(root, B) returns at most B nodes and buildIdMap    *)
(* assigns at most B ids, for every budget B >= 0 and every fiber graph.   *)
(***************************************************************************)
C10_BudgetRespected ==
  pureOut.done =>
    /\ Len(pureOut.graph.nodes) <= pureIn.budget
    /\ Len(pureOut.idMap) <= pureIn.budget

C10_Witness ==
  /\ pureOut.done
  /\ pureIn.budget > 0
  /\ Len(pureOut.graph.nodes) = pureIn.budget
  /\ Len(buildIdMap(pureIn.h, pureIn.cur, MAX_NODES)) > pureIn.budget

(***************************************************************************)
(* Vocabulary of the identity properties.                                  *)
(***************************************************************************)

(* stripInstanceIndex (src/unnamed/part_003:1-3): every [digits] of an id  *)
(* becomes [*]                                                             *)
StarIdx == -2
stripInstanceIndex(id) ==
  [i \in DOMAIN id |-> IF id[i].idx = NoIdx THEN id[i] ELSE Seg(id[i].name, StarIdx)]

LastSeg(id) == id[Len(id)]

NameAt(idMap, i) == getDisplayName(pureIn.h[idMap[i].fiber])

(* how many entries before the i-th have its parent id and its name *)
EarlierSame(idMap, i) ==
  Cardinality({j \in 1..(i - 1) :
                 /\ idMap[j].parentId = idMap[i].parentId
                 /\ NameAt(idMap, j) = NameAt(idMap, i)})

IndicesInOrder(idMap) ==
  \A i \in DOMAIN idMap :
    LastSeg(idMap[i].id).idx =
      (IF idMap[i].parentId = NoId THEN 0 ELSE EarlierSame(idMap, i))

(* the fiber whose child list holds g (0 for the root) *)
RECURSIVE TreeParentOf(_, _)
TreeParentOf(h, g) ==
  IF \E f \in DOMAIN h : h[f].child = g
  THEN CHOOSE f \in DOMAIN h : h[f].child = g
  ELSE IF \E f \in DOMAIN h : h[f].sibling = g
  THEN TreeParentOf(h, CHOOSE f \in DOMAIN h : h[f].sibling = g)
  ELSE NULLF

(* component-like: the fiber's type is a function or a non-null object *)
ComponentLike(fiber) == fiber.typeKind \in {"function", "object"}

(* the traversal root, or component-like *)
Identifiable(h, root, f) == f = root \/ ComponentLike(h[f])

(* the nearest proper ancestor of g that is identifiable (0 for the root) *)
RECURSIVE NearestIdentifiable(_, _, _)
NearestIdentifiable(h, root, g) ==
  LET p == TreeParentOf(h, g)
  IN IF p = NULLF THEN NULLF
     ELSE IF Identifiable(h, root, p) THEN p
     ELSE NearestIdentifiable(h, root, p)

(* the fibers reachable from the root over child and sibling links *)
RECURSIVE InTree(_, _, _)
InTree(h, root, g) ==
  g = root \/ (TreeParentOf(h, g) # NULLF /\ InTree(h, root, TreeParentOf(h, g)))

IdOfFiber(idMap, f) ==
  IF \E i \in DOMAIN idMap : idMap[i].fiber = f
  THEN idMap[CHOOSE i \in DOMAIN idMap : idMap[i].fiber = f].id
  ELSE NoId

IdsIn(idMap) == {idMap[i].id : i \in DOMAIN idMap}

(***************************************************************************)
(* C11: in one pass the nodes that share a parent id and a display name    *)
(* get the indices 0, 1, 2, ... in traversal order, whatever other names   *)
(* and other parents the tree holds, and the next pass counts from 0       *)
(* again.                                                                  *)
(***************************************************************************)
C11_SiblingIndices ==
  /\ pureOut.done => IndicesInOrder(pureOut.idMap)
  /\ pureOut.again => IndicesInOrder(pureOut.idMapAgain)

C11_Witness ==
  /\ pureOut.again
  /\ \E i, j \in DOMAIN pureOut.idMapAgain :
       /\ i < j
       /\ pureOut.idMapAgain[i].parentId = pureOut.idMapAgain[j].parentId
       /\ NameAt(pureOut.idMapAgain, i) = "B"
       /\ LastSeg(pureOut.idMapAgain[j].id) = Seg("A", 2)

(***************************************************************************)
(* C12: a fiber that is neither the traversal root nor component-like gets *)
(* no id and no node, the components below it are still identified, and    *)
(* every identified fiber's parentId is the id of its nearest identified   *)
(* proper ancestor (null for the root only); an id is its parentId         *)
(* followed by name[index], the root's id is ROOT followed by name[0].     *)
(***************************************************************************)
C12_TransparentHosts ==
  pureOut.done =>
    LET h == pureIn.h
        root == pureIn.cur
        idMap == pureOut.idMap
    IN /\ \A i, j \in DOMAIN idMap : idMap[i].fiber = idMap[j].fiber => i = j
       /\ \A i \in DOMAIN idMap : Identifiable(h, root, idMap[i].fiber)
       /\ pureIn.budget = MAX_NODES =>
            {idMap[i].fiber : i \in DOMAIN idMap} =
              {f \in DOMAIN h : InTree(h, root, f) /\ Identifiable(h, root, f)}
       /\ \A i \in DOMAIN idMap :
            LET e == idMap[i]
            IN IF e.fiber = root
               THEN e.parentId = NoId /\ e.id = <<RootSeg, Seg(NameAt(idMap, i), 0)>>
               ELSE /\ e.parentId # NoId
                    /\ e.parentId = IdOfFiber(idMap, NearestIdentifiable(h, root, e.fiber))
                    /\ SubSeq(e.id, 1, Len(e.id) - 1) = e.parentId
                    /\ LastSeg(e.id).name = NameAt(idMap, i)
       /\ pureOut.graph.nodes =
            [i \in DOMAIN idMap |-> [id |-> idMap[i].id, name |-> NameAt(idMap, i)]]

C12_Witness ==
  /\ pureOut.done
  /\ pureIn.budget = MAX_NODES
  /\ \E i \in DOMAIN pureOut.idMap :
       /\ Len(pureOut.idMap[i].id) = 4
       /\ pureIn.h[TreeParentOf(pureIn.h, pureOut.idMap[i].fiber)].typeKind = "string"
       /\ TreeParentOf(pureIn.h, pureOut.idMap[i].fiber) #
            NearestIdentifiable(pureIn.h, pureIn.cur, pureOut.idMap[i].fiber)

(***************************************************************************)
(* C13: for App with the children Navbar and Page, Page with two Item      *)
(* children, the graph has the five ids ROOT/App[0], .../Navbar[0],        *)
(* .../Page[0], .../Page[0]/Item[0], .../Page[0]/Item[1] and the four      *)
(* edges from each node's parent id to its id.                             *)
(***************************************************************************)
IdApp == <<RootSeg, Seg("App", 0)>>
IdNavbar == Append(IdApp, Seg("Navbar", 0))
IdPage == Append(IdApp, Seg("Page", 0))
IdItem(n) == Append(IdPage, Seg("Item", n))

C13_Scenario ==
  (pureOut.done /\ pureIn.h = ScenarioHeap /\ pureIn.budget = MAX_NODES) =>
    /\ Len(pureOut.graph.nodes) = 5
    /\ {pureOut.graph.nodes[i].id : i \in DOMAIN pureOut.graph.nodes} =
         {IdApp, IdNavbar, IdPage, IdItem(0), IdItem(1)}
    /\ Len(pureOut.graph.edges) = 4
    /\ SeqToSet(pureOut.graph.edges) =
         {[from |-> IdApp, to |-> IdNavbar], [from |-> IdApp, to |-> IdPage],
          [from |-> IdPage, to |-> IdItem(0)], [from |-> IdPage, to |-> IdItem(1)]}

C13_Witness ==
  /\ pureOut.done
  /\ pureIn.h = ScenarioHeap
  /\ pureIn.budget = MAX_NODES
  /\ Len(pureOut.graph.edges) = 4

(***************************************************************************)
(* C14: two passes over a tree whose nodes, names and links did not change *)
(* in between (flags and props may have) give the same set of ids once the *)
(* instance indices are normalized away, and the same normalized edges.    *)
(***************************************************************************)
C14_SameShape ==
  pureOut.again =>
    /\ {stripInstanceIndex(id) : id \in IdsIn(pureOut.idMapAgain)} =
         {stripInstanceIndex(id) : id \in IdsIn(pureOut.idMap)}
    /\ Len(pureOut.idMapAgain) = Len(pureOut.idMap)
    /\ {[from |-> stripInstanceIndex(e.from), to |-> stripInstanceIndex(e.to)] :
          e \in SeqToSet(pureOut.graphAgain.edges)} =
         {[from |-> stripInstanceIndex(e.from), to |-> stripInstanceIndex(e.to)] :
            e \in SeqToSet(pureOut.graph.edges)}

C14_Witness ==
  /\ pureOut.again
  /\ pureOut.touched # NULLF
  /\ isReactComponent(pureIn.h[pureOut.touched])
  /\ \E i, j \in DOMAIN pureOut.idMap :
       /\ i # j
       /\ stripInstanceIndex(pureOut.idMap[i].id) = stripInstanceIndex(pureOut.idMap[j].id)

(***************************************************************************)
(* Vocabulary of the update properties.                                    *)
(***************************************************************************)

(* the Update Records of fiber f *)
RecordsOf(f) ==
  {i \in DOMAIN pureOut.updates :
     /\ IdOfFiber(pureOut.idMap, f) # NoId
     /\ pureOut.updates[i].id = IdOfFiber(pureOut.idMap, f)}

(* component X was identified and has a record *)
XRecorded == pureOut.done /\ RecordsOf(UpdX) # {}

XRecord == pureOut.updates[CHOOSE i \in RecordsOf(UpdX) : TRUE]

XFiber == pureIn.h[UpdX]

NoKeys(snap) == ObjectKeys(snap) = <<>>

(* the fields that differ between two snapshots, an absent snapshot        *)
(* having no fields                                                        *)
DifferingFields(prev, next) ==
  {k \in SeqToSet(ObjectKeys(prev)) \cup SeqToSet(ObjectKeys(next)) :
     GetField(prev, k) # GetField(next, k)}

(***************************************************************************)
(* C15: in every Update Record wasted is true exactly when propsChanged    *)
(* and stateChanged are both empty; a dirty node whose props and state     *)
(* equal its alternate's is wasted with both lists empty.                  *)
(***************************************************************************)
C15_WastedIffNoChange ==
  pureOut.done =>
    /\ \A i \in DOMAIN pureOut.updates :
         pureOut.updates[i].wasted =
           (pureOut.updates[i].propsChanged = <<>> /\ pureOut.updates[i].stateChanged = <<>>)
    /\ (/\ XRecorded
        /\ XFiber.alternate = UpdAlt
        /\ pureIn.h[UpdAlt].memoizedProps = XFiber.memoizedProps
        /\ pureIn.h[UpdAlt].memoizedState = XFiber.memoizedState) =>
         /\ XRecord.wasted
         /\ XRecord.propsChanged = <<>>
         /\ XRecord.stateChanged = <<>>

C15_Witness ==
  /\ XRecorded
  /\ XFiber.alternate = UpdAlt
  /\ XFiber.memoizedProps = ObjSnap(<<"a", "b">>, <<1, 1>>)
  /\ pureIn.h[UpdAlt].memoizedProps = XFiber.memoizedProps
  /\ XFiber.memoizedState = ObjSnap(<<"a">>, <<2>>)
  /\ pureIn.h[UpdAlt].memoizedState = XFiber.memoizedState
  /\ XRecord.wasted

(***************************************************************************)
(* C16: for a dirty node with a previous snapshot the changed list is      *)
(* exactly the fields of the previous or the current snapshot whose values *)
(* differ, each once; an absent current snapshot has no fields, so every   *)
(* field of the previous one is reported.                                  *)
(***************************************************************************)
C16_ShallowDiff ==
  (pureOut.done /\ ~pureIn.prev.nil) =>
    /\ SeqToSet(pureOut.changed) = DifferingFields(pureIn.prev, pureIn.next)
    /\ Len(pureOut.changed) = Cardinality(DifferingFields(pureIn.prev, pureIn.next))

C18_OneRecordPerDirtyNode ==
  pureOut.done =>
    LET dirtyEntries ==
          SelectSeq(pureOut.idMap,
                    LAMBDA e : pureIn.h[e.fiber].flags \notin {0, Undefined})
    IN /\ [i \in DOMAIN pureOut.updates |-> pureOut.updates[i].id] =
            [i \in DOMAIN dirtyEntries |-> dirtyEntries[i].id]
       /\ \A f \in DOMAIN pureIn.h :
            Cardinality(RecordsOf(f)) =
              (IF /\ IdOfFiber(pureOut.idMap, f) # NoId
                  /\ pureIn.h[f].flags \notin {0, Undefined}
               THEN 1 ELSE 0)
       /\ (pureIn.h[UpdY].typeKind = "string" \/ pureIn.budget <= 2) =>
            IdOfFiber(pureOut.idMap, UpdY) = NoId

C18_Witness ==
  /\ pureOut.done
  /\ pureIn.budget < MAX_NODES
  /\ pureIn.h[UpdRoot].flags = 0
  /\ pureIn.h[UpdX].flags = 4
  /\ pureIn.h[UpdY].flags = 4
  /\ pureIn.h[UpdY].typeKind = "function"
  /\ Len(pureOut.updates) = 1

(***************************************************************************)
(* C19: a commit handled by the wrapper posts FIBER_META exactly once,     *)
(* also with no dirty node (diffs empty); it posts FIBER_UPDATE exactly    *)
(* when the Update Records are not empty, with their ids in their order,   *)
(* and never with an empty payload.                                        *)
(***************************************************************************)
EventsOfType(emitted, type) == SelectSeq(emitted, LAMBDA e : e.type = type)

C19_MetaAlwaysUpdateIfAny ==
  FrameworkCommitHandled =>
    LET metas == EventsOfType(act.emitted, "FIBER_META")
        upds == EventsOfType(act.emitted, "FIBER_UPDATE")
        t == rootCurrent[act.root]
        records == buildFiberUpdates(t.h, t.cur, MAX_NODES)
    IN /\ Len(metas) = 1
       /\ metas[1].payload.diffs = records
       /\ Len(upds) = (IF records = <<>> THEN 0 ELSE 1)
       /\ \A i \in DOMAIN upds :
            /\ upds[i].payload # <<>>
            /\ upds[i].payload = [j \in DOMAIN records |-> [id |-> records[j].id]]

C19_Witness ==
  /\ FrameworkCommitHandled
  /\ rootCurrent[act.root].cur # NULLF
  /\ TypesOf(act.emitted) = <<"FIBER_GRAPH", "FIBER_META">>
  /\ act.emitted[2].payload.diffs = <<>>

(***************************************************************************)
(* C20: a root keeps the rootId of its first FIBER_GRAPH in all of them,   *)
(* two roots never share a rootId, the ids are 1, 2, 3, ... in order of    *)
(* first sight, and an assigned id is never changed or given away.         *)
(***************************************************************************)
Assigned(sc) == {r \in Roots : sc.rootIds[r] # 0}

C20_RegistryState ==
  /\ \A k \in DOMAIN scripts :
       /\ \A r1, r2 \in Assigned(scripts[k]) :
            scripts[k].rootIds[r1] = scripts[k].rootIds[r2] => r1 = r2
       /\ {scripts[k].rootIds[r] : r \in Assigned(scripts[k])} =
            1..(scripts[k].nextRootId - 1)
  /\ \A i \in DOMAIN act.emitted :
       act.emitted[i].type = "FIBER_GRAPH" =>
         /\ act.emitted[i].payload.rootId >= 1
         /\ act.emitted[i].payload.rootId =
              scripts[act.emitted[i].by].rootIds[act.emitted[i].root]

C20_RegistryStep ==
  \A k \in DOMAIN scripts : \A r \in Roots :
    /\ r \in Assigned(scripts[k]) => scripts'[k].rootIds[r] = scripts[k].rootIds[r]
    /\ (r \notin Assigned(scripts[k]) /\ r \in Assigned(scripts'[k])) =>
         scripts'[k].rootIds[r] >= scripts[k].nextRootId

C20_RootRegistry == []C20_RegistryState /\ [][C20_RegistryStep]_vars

C20_Witness ==
  /\ \E k \in DOMAIN scripts :
       scripts[k].rootIds[1] = 2 /\ scripts[k].rootIds[2] = 1
  /\ act.kind = "commit"
  /\ act.emitted # <<>>
  /\ act.emitted[1].payload.rootId = 2

(***************************************************************************)
(* The relay: content-script.js forwards page events to the extension      *)
(* runtime, background.js caches and rebroadcasts them.                     *)
(*                                                                         *)
(* A message is {type, payload, tabId}; an absent field is Undefined and    *)
(* NoMsg is null.  Payloads are opaque to the relay, so they are drawn      *)
(* from a small set of distinct values.  The relay state of one step is     *)
(* kept in pureOut and the input the step consumed in pureIn:               *)
(*   pureOut.lastStatus, pureOut.lastGraph : the two module variables       *)
(*   pureOut.inflight  : messages sent to the runtime, not yet handled      *)
(*   pureOut.sent      : messages the step handed to safeBroadcast          *)
(*   pureOut.forwarded : messages the step handed to safeSendMessage        *)
(*   pureOut.injected  : tab ids the step passed to executeScript           *)
(*   pureOut.raised    : an exception left the listener                     *)
(*   pureOut.failedEarlier : a delivery failed in some earlier step         *)
(***************************************************************************)
MaxPayload == 2
MaxTabId == 1
MaxInflight == 1

SOURCE == "react-detective"
EVENT_TYPES == {"STATUS", "FIBER_GRAPH", "FIBER_UPDATE", "FIBER_META"}

Message(type, payload, tabId) == [type |-> type, payload |-> payload, tabId |-> tabId]
NoMsg == Message("null", Undefined, Undefined)
Payloads == 1..MaxPayload
TabIds == {Undefined} \cup (1..MaxTabId)

(* what chrome.runtime.sendMessage does with one message *)
Outcomes == {"delivered", "noListener", "throws"}
(* what chrome.scripting.executeScript does *)
ExecOutcomes == {"ok", "throws", "rejects"}

(* a 'message' event on the page's window *)
WindowTypes == EVENT_TYPES \cup {"INJECT_HOOK_FROM_PANEL", "PANEL_READY", "toString"}
WindowSources == {SOURCE, "other"}
WindowEvent(sameWindow, hasData, source, type, payload) ==
  [sameWindow |-> sameWindow, hasData |-> hasData, source |-> source,
   type |-> type, payload |-> payload]
NoEvent == WindowEvent(FALSE, FALSE, "other", "undefined", Undefined)
WindowEvents ==
  {WindowEvent(w, TRUE, s, t, p) :
     w \in BOOLEAN, s \in WindowSources, t \in WindowTypes, p \in Payloads}
  \cup {WindowEvent(w, FALSE, "other", "undefined", Undefined) : w \in BOOLEAN}

RelayInput(kind, event, message, out1, out2, exec) ==
  [kind |-> kind, event |-> event, message |-> message,
   out1 |-> out1, out2 |-> out2, exec |-> exec]
NoInput == RelayInput("init", NoEvent, NoMsg, "delivered", "delivered", "ok")

lastStatus == pureOut.lastStatus
lastGraph == pureOut.lastGraph

NoRelay ==
  [lastStatus |-> NoMsg, lastGraph |-> NoMsg, inflight |-> <<>>,
   sent |-> <<>>, forwarded |-> <<>>, injected |-> <<>>, raised |-> FALSE,
   failedEarlier |-> FALSE]

(* did a sendMessage of the step that consumed input in and left st fail? *)
StepFailed(in, st) ==
  \/ Len(st.sent) + Len(st.forwarded) >= 1 /\ in.out1 # "delivered"
  \/ Len(st.sent) >= 2 /\ in.out2 # "delivered"

(* a listener starts with nothing sent, forwarded, injected or raised *)
Fresh(in, st) ==
  [st EXCEPT !.sent = <<>>, !.forwarded = <<>>, !.injected = <<>>, !.raised = FALSE,
             !.failedEarlier = @ \/ StepFailed(in, st)]

(* try { chrome.runtime.sendMessage(...) } catch { } : does the throw leave
   the function? *)
BroadcastThrowLeaves(outcome) == outcome = "throws"
BroadcastLeaves(outcome) == FALSE

safeBroadcast(st, message, outcome) ==
  IF st.raised THEN st
  ELSE [st EXCEPT !.sent = Append(@, message),
                  !.raised = BroadcastLeaves(outcome)]

SendLeaves(outcome) == FALSE

(* content-script.js safeSendMessage: the message reaches the runtime only
   when sendMessage neither throws nor rejects *)
safeSendMessage(st, type, payload, outcome) ==
  [st EXCEPT !.forwarded = Append(@, Message(type, payload, Undefined)),
             !.inflight = IF outcome = "delivered"
                          THEN Append(@, Message(type, payload, Undefined))
                          ELSE @,
             !.raised = SendLeaves(outcome)]

(* Object.prototype.hasOwnProperty.call(EVENT_TYPES, type) *)
hasOwnEventTypeAny(type) == TRUE
hasOwnEventType(type) == type \in EVENT_TYPES

FromThisWindow(event) == event.sameWindow

(* the window 'message' listener of the content script *)
Forwards(event) ==
  /\ FromThisWindow(event)
  /\ event.hasData
  /\ event.source = SOURCE
  /\ hasOwnEventType(event.type)

onWindowMessage(st, event, outcome) ==
  IF Forwards(event) THEN safeSendMessage(st, event.type, event.payload, outcome)
  ELSE st

(* if (!tabId) return *)
TabIdGiven(tabId) == tabId # Undefined /\ tabId # 0

(* lastStatus = null; lastGraph = null *)
Cleared(st) == [st EXCEPT !.lastStatus = NoMsg, !.lastGraph = NoMsg]

(* try { chrome.scripting.executeScript(...) } catch { } : the call is
   recorded with the caches as they are when it is made *)
executeScript(st, tabId, exec) ==
  [st EXCEPT !.injected = Append(@, [tabId |-> tabId,
                                     lastStatus |-> st.lastStatus,
                                     lastGraph |-> st.lastGraph])]

OnInjectThenClear(st, message, exec) ==
  IF ~TabIdGiven(message.tabId) THEN st
  ELSE IF exec = "throws" THEN executeScript(st, message.tabId, exec)
       ELSE Cleared(executeScript(st, message.tabId, exec))
OnInjectHookFromPanel(st, message, exec) ==
  IF ~TabIdGiven(message.tabId) THEN st
  ELSE executeScript(Cleared(st), message.tabId, exec)

CacheStatus(st, message) == [st EXCEPT !.lastStatus = message]

OnStatus(st, message, outcome) ==
  safeBroadcast(CacheStatus(st, message), message, outcome)

OnFiberGraph(st, message, outcome) ==
  safeBroadcast([st EXCEPT !.lastGraph = message], message, outcome)

OnFiberUpdate(st, message, outcome) == safeBroadcast(st, message, outcome)

OnFiberMeta(st, message, outcome) == safeBroadcast(st, message, outcome)

ReplayGraphFirst(st, out1, out2) ==
  LET a == IF st.lastGraph # NoMsg THEN safeBroadcast(st, st.lastGraph, out1) ELSE st
  IN IF a.lastStatus # NoMsg THEN safeBroadcast(a, a.lastStatus, out2) ELSE a
OnPanelReady(st, out1, out2) ==
  LET a == IF st.lastStatus # NoMsg THEN safeBroadcast(st, st.lastStatus, out1) ELSE st
  IN IF a.lastGraph # NoMsg THEN safeBroadcast(a, a.lastGraph, out2) ELSE a

(* handlers[message?.type], and the call of the handler found *)
onRuntimeMessage(st, message, out1, out2, exec) ==
  IF message.type = "INJECT_HOOK_FROM_PANEL" THEN OnInjectHookFromPanel(st, message, exec)
  ELSE IF message.type = "STATUS" THEN OnStatus(st, message, out1)
  ELSE IF message.type = "FIBER_GRAPH" THEN OnFiberGraph(st, message, out1)
  ELSE IF message.type = "FIBER_UPDATE" THEN OnFiberUpdate(st, message, out1)
  ELSE IF message.type = "FIBER_META" THEN OnFiberMeta(st, message, out1)
  ELSE IF message.type = "PANEL_READY" THEN OnPanelReady(st, out1, out2)
  ELSE st

InitRelay ==
  /\ hookPresent = FALSE
  /\ installedFlag = FALSE
  /\ onCommit = NoHandler
  /\ renderers = <<>>
  /\ fiberRoots = [r \in RendererIds |-> <<>>]
  /\ rootCurrent = [r \in Roots |-> Tree(AppHeap(0, 0), NULLF)]
  /\ scripts = <<>>
  /\ act = IdleAct
  /\ statusLog = <<>>
  /\ calls = 0
  /\ pureIn = NoInput
  /\ pureOut = NoRelay

(* the page (or a frame of it) posts a message to the window *)
WindowMessage(event, outcome) ==
  /\ Len(pureOut.inflight) < MaxInflight
  /\ pureIn' = RelayInput("window", event, NoMsg, outcome, "delivered", "ok")
  /\ pureOut' = onWindowMessage(Fresh(pureIn, pureOut), event, outcome)
  /\ UNCHANGED pageVars

(* the panel mounts: it asks for injection, then announces itself *)
PanelSend(message) ==
  /\ Len(pureOut.inflight) < MaxInflight
  /\ pureIn' = RelayInput("panel", NoEvent, message, "delivered", "delivered", "ok")
  /\ pureOut' = [Fresh(pureIn, pureOut) EXCEPT !.inflight = Append(@, message)]
  /\ UNCHANGED pageVars

PanelMessages ==
  {Message("INJECT_HOOK_FROM_PANEL", Undefined, t) : t \in TabIds}
  \cup {Message("PANEL_READY", Undefined, Undefined)}

(* chrome.runtime.onMessage of the background, one action per handler *)
Handle(type, out1, out2, exec) ==
  /\ pureOut.inflight # <<>>
  /\ Head(pureOut.inflight).type = type
  /\ pureIn' = RelayInput("runtime", NoEvent, Head(pureOut.inflight), out1, out2, exec)
  /\ pureOut' = onRuntimeMessage(
                  [Fresh(pureIn, pureOut) EXCEPT !.inflight = Tail(@)],
                  Head(pureOut.inflight), out1, out2, exec)
  /\ UNCHANGED pageVars

HandleInjectHookFromPanel ==
  \E exec \in ExecOutcomes : Handle("INJECT_HOOK_FROM_PANEL", "delivered", "delivered", exec)
HandleStatus == \E o \in Outcomes : Handle("STATUS", o, "delivered", "ok")
HandleFiberGraph == \E o \in Outcomes : Handle("FIBER_GRAPH", o, "delivered", "ok")
HandleFiberUpdate == \E o \in Outcomes : Handle("FIBER_UPDATE", o, "delivered", "ok")
HandleFiberMeta == \E o \in Outcomes : Handle("FIBER_META", o, "delivered", "ok")
HandlePanelReady ==
  \E o1 \in Outcomes : \E o2 \in Outcomes : Handle("PANEL_READY", o1, o2, "ok")

NextRelay ==
  \/ \E event \in WindowEvents :
       \E outcome \in (IF Forwards(event) THEN Outcomes ELSE {"delivered"}) :
         WindowMessage(event, outcome)
  \/ \E message \in PanelMessages : PanelSend(message)
  \/ HandleInjectHookFromPanel
  \/ HandleStatus
  \/ HandleFiberGraph
  \/ HandleFiberUpdate
  \/ HandleFiberMeta
  \/ HandlePanelReady

SpecRelay == InitRelay /\ [][NextRelay]_vars

(***************************************************************************)
(* Vocabulary of the relay claims: the step that led to the current state. *)
(***************************************************************************)
RuntimeStep(type) == pureIn.kind = "runtime" /\ pureIn.message.type = type
WindowStep == pureIn.kind = "window"
IfCached(message) == IF message # NoMsg THEN <<message>> ELSE <<>>
HasTabId(message) == message.tabId \in 1..MaxTabId

(* C21: the background caches the most recent STATUS and the most recent
   FIBER_GRAPH: a STATUS (FIBER_GRAPH) message replaces the cached status
   (graph) and every other message except an injection request leaves it as
   it is, so the cache always holds the latest one received since the last
   reset.  PANEL_READY broadcasts the cached STATUS, if any, then the cached
   FIBER_GRAPH, if any, and nothing else.  FIBER_UPDATE and FIBER_META are
   broadcast exactly once when they arrive, and never enter a cache. *)
C21_CacheState ==
  /\ lastStatus # NoMsg => lastStatus.type = "STATUS"
  /\ lastGraph # NoMsg => lastGraph.type = "FIBER_GRAPH"
  /\ RuntimeStep("STATUS") => lastStatus = pureIn.message /\ pureOut.sent = <<pureIn.message>>
  /\ RuntimeStep("FIBER_GRAPH") => lastGraph = pureIn.message /\ pureOut.sent = <<pureIn.message>>
  /\ RuntimeStep("PANEL_READY") => pureOut.sent = IfCached(lastStatus) \o IfCached(lastGraph)
  /\ RuntimeStep("FIBER_UPDATE") \/ RuntimeStep("FIBER_META") =>
       pureOut.sent = <<pureIn.message>>
  /\ ~(pureIn.kind = "runtime") => pureOut.sent = <<>>

C21_CacheStep ==
  /\ ~(pureIn'.kind = "runtime" /\ pureIn'.message.type \in {"STATUS", "INJECT_HOOK_FROM_PANEL"})
       => lastStatus' = lastStatus
  /\ ~(pureIn'.kind = "runtime" /\ pureIn'.message.type \in {"FIBER_GRAPH", "INJECT_HOOK_FROM_PANEL"})
       => lastGraph' = lastGraph

C21_CacheAndReplay == []C21_CacheState /\ [][C21_CacheStep]_vars

C21_Witness ==
  /\ RuntimeStep("PANEL_READY")
  /\ lastStatus = Message("STATUS", 2, Undefined)
  /\ lastGraph = Message("FIBER_GRAPH", 1, Undefined)
  /\ pureOut.sent = <<lastStatus, lastGraph>>

(* C22 as stated: whenever the delivery of a STATUS or FIBER_GRAPH event
   fails at either hop of the relay, nothing is raised and the cache holds
   that event afterwards. *)
C22_CacheUpdatedOnAnyFailure ==
  /\ ~pureOut.raised
  /\ \A i \in DOMAIN pureOut.forwarded :
       (pureIn.out1 # "delivered" /\ pureOut.forwarded[i].type = "STATUS")
         => lastStatus = pureOut.forwarded[i]
  /\ \A i \in DOMAIN pureOut.forwarded :
       (pureIn.out1 # "delivered" /\ pureOut.forwarded[i].type = "FIBER_GRAPH")
         => lastGraph = pureOut.forwarded[i]
  /\ (RuntimeStep("STATUS") /\ pureIn.out1 # "delivered") => lastStatus = pureIn.message
  /\ (RuntimeStep("FIBER_GRAPH") /\ pureIn.out1 # "delivered") => lastGraph = pureIn.message

(* C22: no step of the relay raises, whatever sendMessage does.  When the
   background's broadcast of a STATUS or FIBER_GRAPH event fails, the cache
   holds that event all the same; an event whose delivery from the content
   script fails never reaches the background and its cache.  After a failed
   delivery every event that arrives is still handed to sendMessage: the
   content script forwards it, the background broadcasts it. *)
C22_Swallowed ==
  /\ ~pureOut.raised
  /\ (RuntimeStep("STATUS") /\ pureIn.out1 # "delivered") => lastStatus = pureIn.message
  /\ (RuntimeStep("FIBER_GRAPH") /\ pureIn.out1 # "delivered") => lastGraph = pureIn.message
  /\ (pureOut.failedEarlier /\ pureIn.kind = "runtime"
        /\ pureIn.message.type \in {"STATUS", "FIBER_GRAPH", "FIBER_UPDATE", "FIBER_META"})
       => pureOut.sent = <<pureIn.message>>
  /\ (pureOut.failedEarlier /\ WindowStep /\ pureIn.event.sameWindow /\ pureIn.event.hasData
        /\ pureIn.event.source = "react-detective"
        /\ pureIn.event.type \in {"STATUS", "FIBER_GRAPH", "FIBER_UPDATE", "FIBER_META"})
       => pureOut.forwarded = <<Message(pureIn.event.type, pureIn.event.payload, Undefined)>>

C22_LostStep ==
  (pureIn'.kind = "window" /\ pureOut'.forwarded # <<>> /\ pureIn'.out1 # "delivered") =>
    /\ pureOut'.inflight = pureOut.inflight
    /\ lastStatus' = lastStatus
    /\ lastGraph' = lastGraph

C22_BestEffort == []C22_Swallowed /\ [][C22_LostStep]_vars

C22_Witness ==
  /\ pureOut.failedEarlier
  /\ RuntimeStep("FIBER_GRAPH")
  /\ pureIn.out1 = "throws"
  /\ lastGraph = pureIn.message
  /\ pureOut.sent = <<pureIn.message>>

(* C29: the content script hands a window message to the runtime only if
   the message was posted by the window itself, carries the source
   'react-detective' and has one of the four event types; what it hands
   over has the type and the payload of the window message and nothing
   else; no other step forwards anything. *)
C29_ForwardFilter ==
  /\ Len(pureOut.forwarded) <= 1
  /\ pureOut.forwarded # <<>> =>
       /\ WindowStep
       /\ pureIn.event.sameWindow
       /\ pureIn.event.hasData
       /\ pureIn.event.source = "react-detective"
       /\ pureIn.event.type \in {"STATUS", "FIBER_GRAPH", "FIBER_UPDATE", "FIBER_META"}
       /\ pureOut.forwarded[1].type = pureIn.event.type
       /\ pureOut.forwarded[1].payload = pureIn.event.payload
       /\ pureOut.forwarded[1].tabId = Undefined

C29_ForwardStep ==
  pureIn'.kind = "window" =>
    pureOut'.inflight =
      pureOut.inflight \o (IF pureIn'.out1 = "delivered" THEN pureOut'.forwarded ELSE <<>>)

C29_ContentScriptFilter == []C29_ForwardFilter /\ [][C29_ForwardStep]_vars

C29_Witness ==
  /\ WindowStep
  /\ pureIn.event = WindowEvent(TRUE, TRUE, "react-detective", "FIBER_META", 2)
  /\ pureOut.forwarded = <<Message("FIBER_META", 2, Undefined)>>
  /\ pureOut.inflight # <<>>
  /\ pureOut.inflight[Len(pureOut.inflight)] = Message("FIBER_META", 2, Undefined)

(* C30: an injection request with a tab id empties both caches, and the
   script is injected with both caches already empty, whether or not the
   injection succeeds; a request without a tab id changes neither cache and
   injects nothing; PANEL_READY, FIBER_UPDATE and FIBER_META change neither
   cache. *)
C30_InjectState ==
  /\ (RuntimeStep("INJECT_HOOK_FROM_PANEL") /\ HasTabId(pureIn.message)) =>
       /\ lastStatus = NoMsg
       /\ lastGraph = NoMsg
       /\ pureOut.injected = <<[tabId |-> pureIn.message.tabId,
                                lastStatus |-> NoMsg, lastGraph |-> NoMsg]>>
  /\ ~(RuntimeStep("INJECT_HOOK_FROM_PANEL") /\ HasTabId(pureIn.message)) =>
       pureOut.injected = <<>>

C30_FrameStep ==
  (/\ pureIn'.kind = "runtime"
   /\ \/ pureIn'.message.type \in {"PANEL_READY", "FIBER_UPDATE", "FIBER_META"}
      \/ pureIn'.message.type = "INJECT_HOOK_FROM_PANEL" /\ ~HasTabId(pureIn'.message))
    => /\ lastStatus' = lastStatus
       /\ lastGraph' = lastGraph

C30_InjectClearsCaches == []C30_InjectState /\ [][C30_FrameStep]_vars

C30_Witness ==
  /\ RuntimeStep("INJECT_HOOK_FROM_PANEL")
  /\ HasTabId(pureIn.message)
  /\ pureIn.exec = "throws"
  /\ pureOut.failedEarlier
  /\ lastStatus = NoMsg
  /\ Len(pureOut.injected) = 1

(***************************************************************************)
(* graph-utils: stripInstanceIndex and getSignature on ids as strings.      *)
(* A string is a sequence of characters.  The regular expression /\[\d+]/g  *)
(* is matched as String.prototype.replace does it: from left to right, at   *)
(* each position an opening bracket, the longest run of digits (at least    *)
(* one), a closing bracket; after a match the scan goes on behind it.       *)
(***************************************************************************)
MaxPieces == 4

Digits == {"3", "7"}
Star == <<"[", "*", "]">>
Arrow == <<" ", ">", " ">>

RECURSIVE DigitRun(_, _)
(* how many digits stand at position i and after it *)
DigitRun(s, i) ==
  IF i <= Len(s) /\ s[i] \in Digits THEN 1 + DigitRun(s, i + 1) ELSE 0

(* the position where a match of \[\d+] that starts at i ends, 0 if none *)
MatchEnd(s, i) ==
  IF i > Len(s) \/ s[i] # "[" THEN 0
  ELSE LET n == DigitRun(s, i + 1)
       IN IF n >= 1 /\ i + n + 1 <= Len(s) /\ s[i + n + 1] = "]" THEN i + n + 1 ELSE 0

RECURSIVE ReplaceFrom(_, _, _)
ReplaceFrom(s, i, with) ==
  IF i > Len(s) THEN <<>>
  ELSE IF MatchEnd(s, i) # 0 THEN with \o ReplaceFrom(s, MatchEnd(s, i) + 1, with)
  ELSE <<s[i]>> \o ReplaceFrom(s, i + 1, with)

(* id.replace(/\[\d+]/g, with) *)
replace(id, with) == ReplaceFrom(id, 1, with)

RECURSIVE ReplaceFirstFrom(_, _, _)
ReplaceFirstFrom(s, i, with) ==
  IF i > Len(s) THEN <<>>
  ELSE IF MatchEnd(s, i) # 0 THEN with \o SubSeq(s, MatchEnd(s, i) + 1, Len(s))
  ELSE <<s[i]>> \o ReplaceFirstFrom(s, i + 1, with)

stripFirstInstanceIndex(id) == ReplaceFirstFrom(id, 1, Star)
stripInstanceIndexText(id) == replace(id, Star)

RECURSIVE split(_, _)
(* s.split(sep) for a separator of one character *)
split(s, sep) ==
  IF \A i \in DOMAIN s : s[i] # sep THEN <<s>>
  ELSE LET i == CHOOSE k \in DOMAIN s : s[k] = sep /\ \A j \in 1..(k - 1) : s[j] # sep
       IN <<SubSeq(s, 1, i - 1)>> \o split(SubSeq(s, i + 1, Len(s)), sep)

getSignatureFirstTwo(id) ==
  LET clean == replace(id, <<>>)
      parts == split(clean, "/")
  IN IF Len(parts) < 2 THEN clean
     ELSE parts[1] \o Arrow \o parts[2]
getSignature(id) ==
  LET clean == replace(id, <<>>)
      parts == split(clean, "/")
  IN IF Len(parts) < 2 THEN clean
     ELSE parts[Len(parts) - 1] \o Arrow \o parts[Len(parts)]

(***************************************************************************)
(* Inputs: an id is written as a sequence of pieces, a piece being one      *)
(* character or an instance index; `other` is the same sequence with other  *)
(* index values, so the two ids differ in index values only.                *)
(***************************************************************************)
Literals == {"A", "/", "[", "]", "*", "7"}
IndexPairs == {<<<<"3">>, <<"3">>>>, <<<<"3">>, <<"7">>>>, <<<<"3", "7">>, <<"7">>>>}
Pieces ==
  {[lit |-> TRUE, c |-> <<c>>, d |-> <<c>>] : c \in Literals}
  \cup {[lit |-> FALSE, c |-> <<"[">> \o v[1] \o <<"]">>, d |-> <<"[">> \o v[2] \o <<"]">>] :
          v \in IndexPairs}
PieceSeqs == UNION {[1..n -> Pieces] : n \in 0..MaxPieces}

RECURSIVE Flatten(_)
Flatten(ss) == IF ss = <<>> THEN <<>> ELSE Head(ss) \o Flatten(Tail(ss))

TextInput(ps) ==
  [id |-> Flatten([i \in DOMAIN ps |-> ps[i].c]),
   other |-> Flatten([i \in DOMAIN ps |-> ps[i].d])]

NoText ==
  [op |-> "none", stripped |-> <<>>, strippedOther |-> <<>>, strippedAgain |-> <<>>,
   signature |-> <<>>]

InitText ==
  /\ hookPresent = FALSE
  /\ installedFlag = FALSE
  /\ onCommit = NoHandler
  /\ renderers = <<>>
  /\ fiberRoots = [r \in RendererIds |-> <<>>]
  /\ rootCurrent = [r \in Roots |-> Tree(AppHeap(0, 0), NULLF)]
  /\ scripts = <<>>
  /\ act = IdleAct
  /\ statusLog = <<>>
  /\ calls = 0
  /\ pureIn \in {TextInput(ps) : ps \in PieceSeqs}
  /\ pureOut = NoText

(* stripInstanceIndex on the id, on its renumbered twin, and on the result *)
Strip ==
  /\ pureOut.op = "none"
  /\ pureOut' = [pureOut EXCEPT
                   !.op = "strip",
                   !.stripped = stripInstanceIndexText(pureIn.id),
                   !.strippedOther = stripInstanceIndexText(pureIn.other),
                   !.strippedAgain =
                     stripInstanceIndexText(stripInstanceIndexText(pureIn.id))]
  /\ UNCHANGED pureIn
  /\ UNCHANGED pageVars

Sign ==
  /\ pureOut.op = "none"
  /\ pureOut' = [pureOut EXCEPT !.op = "sign", !.signature = getSignature(pureIn.id)]
  /\ UNCHANGED pureIn
  /\ UNCHANGED pageVars

NextText == Strip \/ Sign

SpecText == InitText /\ [][NextText]_vars

(***************************************************************************)
(* What the two functions are to compute, said without a scan: the          *)
(* occurrences of an index in s are the pairs i < j with s[i] = "[",        *)
(* s[j] = "]" and only digits, at least one, between them.                  *)
(***************************************************************************)
IndexAt(s, i, j) ==
  /\ i \in DOMAIN s /\ j \in DOMAIN s
  /\ j > i + 1
  /\ s[i] = "[" /\ s[j] = "]"
  /\ \A k \in (i + 1)..(j - 1) : s[k] \in Digits

StartsIndex(s, k) == \E j \in DOMAIN s : IndexAt(s, k, j)
InsideIndex(s, k) == \E i \in 1..k : \E j \in k..Len(s) : IndexAt(s, i, j)

(* s with every occurrence of an index replaced by `with`, the rest kept *)
EachIndexReplaced(s, with) ==
  Flatten([k \in DOMAIN s |->
             IF StartsIndex(s, k) THEN with
             ELSE IF InsideIndex(s, k) THEN <<>>
             ELSE <<s[k]>>])

Slashes(s) == {k \in DOMAIN s : s[k] = "/"}
LastSlash(s) == CHOOSE k \in Slashes(s) : \A j \in Slashes(s) : j <= k
(* the text of s behind its last slash, and s before that slash *)
LastSegment(s) == IF Slashes(s) = {} THEN s ELSE SubSeq(s, LastSlash(s) + 1, Len(s))
BeforeLastSegment(s) == SubSeq(s, 1, LastSlash(s) - 1)

(* C26: stripInstanceIndex replaces every '[n]' of the id by '[*]' and
   keeps every other character in place; stripping the result again changes
   nothing; two ids that differ only in the values of their indices are
   stripped to the same string. *)
C26_StripInstanceIndex ==
  pureOut.op = "strip" =>
    /\ pureOut.stripped = EachIndexReplaced(pureIn.id, <<"[", "*", "]">>)
    /\ \A i, j \in DOMAIN pureOut.stripped : ~IndexAt(pureOut.stripped, i, j)
    /\ pureOut.strippedAgain = pureOut.stripped
    /\ pureOut.strippedOther = pureOut.stripped

C26_Witness ==
  /\ pureOut.op = "strip"
  /\ pureIn.id = <<"[", "3", "7", "]", "/", "A", "[", "3", "]">>
  /\ pureIn.other = <<"[", "7", "]", "/", "A", "[", "7", "]">>
  /\ pureOut.stripped = <<"[", "*", "]", "/", "A", "[", "*", "]">>
  /\ pureOut.strippedOther = pureOut.stripped

(* C27: getSignature takes every index out of the id and returns the last
   two segments of the resulting path as 'Parent > Child'; an id of one
   segment is returned whole, without its indices. *)
C27_GetSignature ==
  pureOut.op = "sign" =>
    LET clean == EachIndexReplaced(pureIn.id, <<>>)
    IN IF Slashes(clean) = {} THEN pureOut.signature = clean
       ELSE pureOut.signature =
              LastSegment(BeforeLastSegment(clean)) \o <<" ", ">", " ">> \o LastSegment(clean)

C27_Witness ==
  /\ pureOut.op = "sign"
  /\ pureIn.id = <<"A", "[", "3", "7", "]", "/", "7">>
  /\ pureOut.signature = <<"A", " ", ">", " ", "7">>

(* C28: a traversal pass comes to an end on every fiber graph, with cycles
   and with fibers reachable along several links: the pass over each input
   yields a finite list of visits, no longer than the number of fibers; no
   fiber passes the guard of visit twice in a pass, and no fiber passes it
   once the count of identified nodes has reached the budget; the ids the
   pass returns belong to fibers it visited. *)
C28_PassTerminates ==
  LET visits == VisitsOf(pureIn.h, pureIn.cur, pureIn.budget)
  IN /\ Len(visits) <= Cardinality(Fibers)
     /\ \A i, j \in DOMAIN visits : visits[i].fiber = visits[j].fiber => i = j
     /\ \A i \in DOMAIN visits : visits[i].count < pureIn.budget
     /\ pureOut.done =>
          \A i \in DOMAIN pureOut.idMap :
            \E j \in DOMAIN visits : visits[j].fiber = pureOut.idMap[i].fiber

C28_Witness ==
  /\ pureOut.done
  /\ pureIn.budget = 2
  /\ pureIn.cur = 1
  /\ pureIn.h[1].child = 2
  /\ pureIn.h[1].sibling = 3
  /\ pureIn.h[2].typeKind = "function"
  /\ pureIn.h[2].child = 1
  /\ pureIn.h[2].sibling = 3
  /\ pureIn.h[3].sibling = 1
  /\ [i \in DOMAIN VisitsOf(pureIn.h, pureIn.cur, pureIn.budget) |->
        VisitsOf(pureIn.h, pureIn.cur, pureIn.budget)[i].fiber] = <<1, 2>>

(***************************************************************************)
(* graph-utils: buildStructureSignature.  Ids are the token sequences of    *)
(* the tree builder, so stripInstanceIndex is the one above.  A list that   *)
(* is sorted and joined with a separator that no id contains is given by    *)
(* the number of times each element occurs in it, so list.sort().join('|')  *)
(* is modelled as that bag.                                                 *)
(***************************************************************************)
MaxIdx == 1
MaxSigNodes == 4
MaxSigEdges == 2

(* list.sort().join('|') *)
sortJoin(list) ==
  [x \in SeqToSet(list) |-> Cardinality({i \in DOMAIN list : list[i] = x})]

buildStructureSignatureRaw(graph) ==
  [nodeSig |-> sortJoin([i \in DOMAIN graph.nodes |-> graph.nodes[i].id]),
   edgeSig |-> sortJoin([i \in DOMAIN graph.edges |->
                           [from |-> graph.edges[i].from, to |-> graph.edges[i].to]])]

buildStructureSignature(graph) ==
  [nodeSig |-> sortJoin([i \in DOMAIN graph.nodes |->
                           stripInstanceIndex(graph.nodes[i].id)]),
   edgeSig |-> sortJoin([i \in DOMAIN graph.edges |->
                           [from |-> stripInstanceIndex(graph.edges[i].from),
                            to |-> stripInstanceIndex(graph.edges[i].to)]])]

(* ids of parents ROOT/P[i] and of their children ROOT/P[i]/C[j] *)
SigIndices == 0..MaxIdx
ParentId(i) == <<RootSeg, Seg("P", i)>>
ChildId(i, j) == <<RootSeg, Seg("P", i), Seg("C", j)>>
ParentIds == {ParentId(i) : i \in SigIndices}
ChildIds == {ChildId(i, j) : i \in SigIndices, j \in SigIndices}
SigIds == ParentIds \cup ChildIds

GraphNode(id) == [id |-> id, name |-> id[Len(id)].name]
GraphEdge(from, to) == [from |-> from, to |-> to]

(* lists without repetition of up to n elements of S *)
ListsOf(S, n) ==
  UNION {{s \in [1..k -> S] : \A i, j \in 1..k : s[i] = s[j] => i = j} : k \in 0..n}

(* The graph the tree builder returns for a root with parents P, the i-th  *)
(* having kids[i] children C: nodes in traversal order, one edge per child. *)
RECURSIVE FamilyNodes(_, _)
FamilyNodes(kids, i) ==
  IF i > Len(kids) THEN <<>>
  ELSE <<GraphNode(ParentId(i - 1))>>
       \o [j \in 1..kids[i] |-> GraphNode(ChildId(i - 1, j - 1))]
       \o FamilyNodes(kids, i + 1)

RECURSIVE FamilyEdges(_, _)
FamilyEdges(kids, i) ==
  IF i > Len(kids) THEN <<>>
  ELSE [j \in 1..kids[i] |-> GraphEdge(ParentId(i - 1), ChildId(i - 1, j - 1))]
       \o FamilyEdges(kids, i + 1)

FamilyGraph(kids) == [nodes |-> FamilyNodes(kids, 1), edges |-> FamilyEdges(kids, 1)]

BuiltGraphs ==
  {FamilyGraph(kids) :
     kids \in {k \in UNION {[1..n -> 0..(MaxIdx + 1)] : n \in 0..(MaxIdx + 1)} :
                 /\ Len(FamilyNodes(k, 1)) <= MaxSigNodes
                 /\ Len(FamilyEdges(k, 1)) <= MaxSigEdges}}

(* any list of nodes with any list of edges from a parent to a child *)
AnyGraphs ==
  UNION {{[nodes |-> [i \in DOMAIN ns |-> GraphNode(ns[i])], edges |-> es] :
            es \in ListsOf({GraphEdge(p, c) : p \in SeqToSet(ns) \cap ParentIds,
                                              c \in SeqToSet(ns) \cap ChildIds},
                           MaxSigEdges)} :
           ns \in ListsOf(SigIds, MaxSigNodes)}

NoSignature == [nodeSig |-> <<>>, edgeSig |-> <<>>]
NoSigs == [done |-> FALSE, sig |-> NoSignature, sigOther |-> NoSignature]

InitSig ==
  /\ hookPresent = FALSE
  /\ installedFlag = FALSE
  /\ onCommit = NoHandler
  /\ renderers = <<>>
  /\ fiberRoots = [r \in RendererIds |-> <<>>]
  /\ rootCurrent = [r \in Roots |-> Tree(AppHeap(0, 0), NULLF)]
  /\ scripts = <<>>
  /\ act = IdleAct
  /\ statusLog = <<>>
  /\ calls = 0
  /\ pureIn \in {[graph |-> g, other |-> o] : g \in BuiltGraphs, o \in AnyGraphs}
  /\ pureOut = NoSigs

(* buildStructureSignature(g), as handleFiberGraph calls it, on both graphs *)
BuildSignatures ==
  /\ ~pureOut.done
  /\ pureOut' = [done |-> TRUE,
                 sig |-> buildStructureSignature(pureIn.graph),
                 sigOther |-> buildStructureSignature(pureIn.other)]
  /\ UNCHANGED pureIn
  /\ UNCHANGED pageVars

NextSig == BuildSignatures

SpecSig == InitSig /\ [][NextSig]_vars

(***************************************************************************)
(* Vocabulary of the signature claims.                                      *)
(***************************************************************************)
(* two ids with the same names in the same places, whatever their indices *)
SameButIndex(a, b) ==
  /\ Len(a) = Len(b)
  /\ \A k \in DOMAIN a : a[k].name = b[k].name /\ (a[k].idx = NoIdx <=> b[k].idx = NoIdx)

Perms(n) == {p \in [1..n -> 1..n] : \A i, j \in 1..n : p[i] = p[j] => i = j}

OnlyIndicesDiffer(g, o) ==
  /\ Len(g.nodes) = Len(o.nodes)
  /\ Len(g.edges) = Len(o.edges)
  /\ \A i \in DOMAIN g.nodes : SameButIndex(g.nodes[i].id, o.nodes[i].id)
  /\ \A i \in DOMAIN g.edges :
       /\ SameButIndex(g.edges[i].from, o.edges[i].from)
       /\ SameButIndex(g.edges[i].to, o.edges[i].to)

OnlyOrderDiffers(g, o) ==
  /\ Len(g.nodes) = Len(o.nodes)
  /\ Len(g.edges) = Len(o.edges)
  /\ \E p \in Perms(Len(g.nodes)) : \A i \in DOMAIN g.nodes : o.nodes[i] = g.nodes[p[i]]
  /\ \E q \in Perms(Len(g.edges)) : \A i \in DOMAIN g.edges : o.edges[i] = g.edges[q[i]]

GraphIds(g) ==
  {g.nodes[i].id : i \in DOMAIN g.nodes}
  \cup {g.edges[i].from : i \in DOMAIN g.edges} \cup {g.edges[i].to : i \in DOMAIN g.edges}

Prefix(id, k) == SubSeq(id, 1, k)

(* o is g with its instance indices renumbered: a one-to-one renaming of    *)
(* the ids that changes index values only and keeps ids under a common      *)
(* ancestor under a common ancestor carries the nodes of g onto the nodes   *)
(* of o and the edges of g onto the edges of o.                             *)
Renumbered(g, o) ==
  /\ Len(g.nodes) = Len(o.nodes)
  /\ Len(g.edges) = Len(o.edges)
  /\ \E f \in [GraphIds(g) -> GraphIds(o)] :
       /\ \A x, y \in GraphIds(g) : f[x] = f[y] => x = y
       /\ \A x \in GraphIds(g) : SameButIndex(x, f[x])
       /\ \A x, y \in GraphIds(g) : \A k \in 1..Len(x) :
            (k <= Len(y) /\ Prefix(x, k) = Prefix(y, k)) <=>
              (k <= Len(y) /\ Prefix(f[x], k) = Prefix(f[y], k))
       /\ \E p \in Perms(Len(g.nodes)) :
            \A i \in DOMAIN g.nodes : o.nodes[i].id = f[g.nodes[p[i]].id]
       /\ \E q \in Perms(Len(g.edges)) :
            \A i \in DOMAIN g.edges :
              /\ o.edges[i].from = f[g.edges[q[i]].from]
              /\ o.edges[i].to = f[g.edges[q[i]].to]

(* C24: two graphs that differ only in the index values of their ids, or
   only in the order of their node list and of their edge list, have the
   same structure signature. *)
C24_SignatureStable ==
  (pureOut.done /\ (OnlyIndicesDiffer(pureIn.graph, pureIn.other)
                     \/ OnlyOrderDiffers(pureIn.graph, pureIn.other)))
    => pureOut.sig = pureOut.sigOther

C24_Witness ==
  /\ pureOut.done
  /\ pureIn.graph = FamilyGraph(<<1, 0>>)
  /\ pureIn.other.nodes = <<GraphNode(ParentId(1)), GraphNode(ChildId(0, 1)),
                            GraphNode(ParentId(0))>>
  /\ pureIn.other.edges = <<GraphEdge(ParentId(1), ChildId(0, 1))>>
  /\ OnlyIndicesDiffer(pureIn.graph, pureIn.other)
  /\ pureOut.sig = pureOut.sigOther

(* C25 as stated: two graphs of which one is not the other with its
   instance indices renumbered (a node or an edge is in one and not in the
   other) have different structure signatures. *)
C25_SignatureDiscriminates ==
  (pureOut.done /\ ~Renumbered(pureIn.graph, pureIn.other))
    => pureOut.sig # pureOut.sigOther

(* the pair the claim names: both children under the first parent, against
   one child under each parent *)
C25_ParentPair ==
  ~(/\ pureOut.done
    /\ pureIn.graph = FamilyGraph(<<2, 0>>)
    /\ pureIn.other = FamilyGraph(<<1, 1>>)
    /\ pureOut.sig = pureOut.sigOther)

(***************************************************************************)
(* The panel (usePanelBridge.ts): the message router and the guards of      *)
(* handleFiberGraph.  A graph is given by its node count and by the class   *)
(* of its structure (two graphs of one class and one count have one         *)
(* signature); what the panel shows is given by the graph whose layout is   *)
(* on screen.  Time is counted in steps of half the throttle interval.      *)
(*   pureOut.status, graph, analytics     : the Redux slice                 *)
(*   pureOut.nodes, edges                 : the ReactFlow state             *)
(*   pureOut.prevStructureSig, lastGraphProcess, lastGoodCount,             *)
(*           lastGoodLayout               : the refs                        *)
(*   pureOut.now                          : Date.now()                      *)
(*   pureOut.recomputed                   : the last step called layout     *)
(*   pureOut.ever                         : the last graph laid out, the    *)
(*                                          last signature accepted and the *)
(*                                          last pass of the throttle, not  *)
(*                                          forgotten on a reset            *)
(*   pureIn                               : the message of the last step,   *)
(*                                          and what was shown before it    *)
(***************************************************************************)
MIN_GRAPH_NODES == 10
GRAPH_THROTTLE_MS == 150
PARTIAL_GRAPH_RATIO_TENTHS == 6
MaxShapes == 2
MaxTicks == 2

ClockStep == GRAPH_THROTTLE_MS \div 2
StartTime == 2 * GRAPH_THROTTLE_MS

PanelGraph(count, shape) == [count |-> count, shape |-> shape, hasLists |-> TRUE]
(* a payload whose graph has no nodes or no edges field *)
NoLists == [count |-> 0, shape |-> 0, hasLists |-> FALSE]
NodeCounts ==
  {MIN_GRAPH_NODES - 1, MIN_GRAPH_NODES,
   (2 * MIN_GRAPH_NODES * PARTIAL_GRAPH_RATIO_TENTHS) \div 10, 2 * MIN_GRAPH_NODES}
PanelGraphs == {PanelGraph(n, s) : n \in NodeCounts, s \in 1..MaxShapes} \cup {NoLists}

(* buildStructureSignature(g), up to the class of the graph *)
SignatureOf(g) == [count |-> g.count, shape |-> g.shape]
NullSig == [count |-> 0, shape |-> 0]
(* layout(buildFlowNodes(g), buildFlowEdges(g)) *)
LayoutOf(g) == [count |-> g.count, shape |-> g.shape]
NoLayout == [count |-> 0, shape |-> 0]

Shown(st) == [nodes |-> st.nodes, edges |-> st.edges, analytics |-> st.analytics]

PanelInput(type, graph, payload, layoutOk, st) ==
  [type |-> type, graph |-> graph, payload |-> payload, layoutOk |-> layoutOk,
   prior |-> [shown |-> Shown(st), ever |-> st.ever]]

NoPanel ==
  [status |-> "INIT", graph |-> NoLists, analytics |-> "empty",
   nodes |-> NoLayout, edges |-> NoLayout,
   prevStructureSig |-> NullSig, lastGraphProcess |-> 0, lastGoodCount |-> 0,
   lastGoodLayout |-> NoLayout,
   now |-> StartTime, recomputed |-> FALSE,
   ever |-> [laid |-> 0, accepted |-> NullSig, passedAt |-> 0]]

(* g.nodes.length < MIN_GRAPH_NODES *)
TooSmallNever(g) == FALSE
TooSmall(g) == g.count < MIN_GRAPH_NODES

(* prevGood > 0 && incoming < prevGood * PARTIAL_GRAPH_RATIO *)
Partial(st, g) ==
  st.lastGoodCount > 0 /\ 10 * g.count < st.lastGoodCount * PARTIAL_GRAPH_RATIO_TENTHS

(* now - lastGraphProcessRef.current < GRAPH_THROTTLE_MS *)
Throttled(st) == st.now - st.lastGraphProcess < GRAPH_THROTTLE_MS

(* the try / catch around layout, setNodes, setEdges *)
LayoutStep(st, g, layoutOk) ==
  IF layoutOk
  THEN [st EXCEPT !.nodes = LayoutOf(g), !.edges = LayoutOf(g),
                  !.lastGoodCount = g.count, !.lastGoodLayout = LayoutOf(g),
                  !.recomputed = TRUE, !.ever.laid = g.count]
  ELSE [st EXCEPT !.nodes = IF st.lastGoodLayout # NoLayout THEN st.lastGoodLayout ELSE @,
                  !.edges = IF st.lastGoodLayout # NoLayout THEN st.lastGoodLayout ELSE @,
                  !.recomputed = TRUE]

handleFiberGraph(st, g, layoutOk) ==
  IF ~g.hasLists THEN st
  ELSE IF TooSmall(g) THEN st
  ELSE IF Partial(st, g) THEN st
  ELSE IF Throttled(st) THEN st
  ELSE LET st1 == [st EXCEPT !.lastGraphProcess = st.now, !.ever.passedAt = st.now]
       IN IF st1.prevStructureSig = SignatureOf(g) THEN st1
          ELSE LayoutStep([st1 EXCEPT !.prevStructureSig = SignatureOf(g),
                                      !.ever.accepted = SignatureOf(g),
                                      !.analytics = "empty"],
                          g, layoutOk)

resetUiKeepsRefs(st) ==
  [st EXCEPT !.graph = NoLists, !.nodes = NoLayout, !.edges = NoLayout,
             !.analytics = "empty"]

resetUiForNonReact(st) ==
  [st EXCEPT !.graph = NoLists, !.nodes = NoLayout, !.edges = NoLayout,
             !.analytics = "empty", !.prevStructureSig = NullSig,
             !.lastGoodCount = 0, !.lastGoodLayout = NoLayout]

PanelStatuses == {"NO_HOOK", "NO_REACT", "REACT_READY"}

InitPanel ==
  /\ hookPresent = FALSE
  /\ installedFlag = FALSE
  /\ onCommit = NoHandler
  /\ renderers = <<>>
  /\ fiberRoots = [r \in RendererIds |-> <<>>]
  /\ rootCurrent = [r \in Roots |-> Tree(AppHeap(0, 0), NULLF)]
  /\ scripts = <<>>
  /\ act = IdleAct
  /\ statusLog = <<>>
  /\ calls = 0
  /\ pureIn = PanelInput("none", NoLists, "", TRUE, NoPanel)
  /\ pureOut = NoPanel

(* message.type === STATUS *)
PanelStatus(payload) ==
  /\ pureIn' = PanelInput("STATUS", NoLists, payload, TRUE, pureOut)
  /\ pureOut' = LET st == [pureOut EXCEPT !.status = payload, !.recomputed = FALSE]
                IN IF payload # "REACT_READY" THEN resetUiForNonReact(st) ELSE st
  /\ UNCHANGED pageVars

(* message.type === FIBER_GRAPH *)
PanelFiberGraph(g, layoutOk) ==
  /\ pureIn' = PanelInput("FIBER_GRAPH", g, "", layoutOk, pureOut)
  /\ pureOut' = handleFiberGraph([pureOut EXCEPT !.graph = g, !.recomputed = FALSE],
                                 g, layoutOk)
  /\ UNCHANGED pageVars

(* message.type === FIBER_META: applyFiberMeta stores the analytics *)
PanelFiberMeta ==
  /\ pureIn' = PanelInput("FIBER_META", NoLists, "", TRUE, pureOut)
  /\ pureOut' = [pureOut EXCEPT !.analytics = "set", !.recomputed = FALSE]
  /\ UNCHANGED pageVars

(* message.type === FIBER_UPDATE: applyFiberUpdate restyles the nodes on  *)
(* screen and keeps their layout                                          *)
PanelFiberUpdate ==
  /\ pureIn' = PanelInput("FIBER_UPDATE", NoLists, "", TRUE, pureOut)
  /\ pureOut' = [pureOut EXCEPT !.recomputed = FALSE]
  /\ UNCHANGED pageVars

(* time passes between two messages *)
PanelClock ==
  /\ pureOut.now < StartTime + MaxTicks * ClockStep
  /\ pureIn' = PanelInput("clock", NoLists, "", TRUE, pureOut)
  /\ pureOut' = [pureOut EXCEPT !.now = @ + ClockStep, !.recomputed = FALSE]
  /\ UNCHANGED pageVars

NextPanel ==
  \/ \E payload \in PanelStatuses : PanelStatus(payload)
  \/ \E g \in PanelGraphs : \E layoutOk \in BOOLEAN : PanelFiberGraph(g, layoutOk)
  \/ PanelFiberMeta
  \/ PanelFiberUpdate
  \/ PanelClock

SpecPanel == InitPanel /\ [][NextPanel]_vars

(***************************************************************************)
(* Claims about the panel's graph guards.                                   *)
(***************************************************************************)
GraphStep == pureIn.type = "FIBER_GRAPH"
Incoming == pureIn.graph.count
RatioTenths == 6
AtLeastRatio(count, good) == 10 * count >= RatioTenths * good

(* C23 as stated: the panel recomputes the layout for an incoming graph    *)
(* only if the graph has at least 10 nodes, at least 0.6 times the nodes   *)
(* of the last graph laid out, 150 ms have passed since the last graph     *)
(* that passed the throttle, and its signature differs from the last       *)
(* accepted one; a graph failing a guard changes neither nodes, edges nor  *)
(* analytics.                                                               *)
C23_GuardsAsStated ==
  /\ pureOut.recomputed =>
       /\ GraphStep
       /\ Incoming >= 10
       /\ AtLeastRatio(Incoming, pureIn.prior.ever.laid)
       /\ pureOut.now - pureIn.prior.ever.passedAt >= 150
       /\ [count |-> Incoming, shape |-> pureIn.graph.shape] # pureIn.prior.ever.accepted
  /\ (GraphStep /\ ~pureOut.recomputed) => Shown(pureOut) = pureIn.prior.shown

(* the step of C23, where the last graph laid out and the last accepted     *)
(* signature are those since the last status other than REACT_READY         *)
C23_GuardStep ==
  LET in == pureIn'
      a == pureOut
      b == pureOut'
      sig == [count |-> in.graph.count, shape |-> in.graph.shape]
      reset == in.type = "STATUS" /\ in.payload # "REACT_READY"
  IN /\ b.recomputed =>
          /\ in.type = "FIBER_GRAPH"
          /\ in.graph.hasLists
          /\ in.graph.count >= 10
          /\ AtLeastRatio(in.graph.count, a.lastGoodCount)
          /\ b.now - a.lastGraphProcess >= 150
          /\ sig # a.prevStructureSig
          /\ b.prevStructureSig = sig
          /\ b.analytics = "empty"
          /\ in.layoutOk => b.nodes = sig /\ b.edges = sig
     /\ (in.type = "FIBER_GRAPH" /\ ~b.recomputed) => Shown(b) = Shown(a)
     /\ b.lastGoodCount # a.lastGoodCount =>
          \/ b.recomputed /\ in.layoutOk /\ b.lastGoodCount = in.graph.count
          \/ reset /\ b.lastGoodCount = 0
     /\ b.prevStructureSig # a.prevStructureSig =>
          \/ b.recomputed
          \/ reset /\ b.prevStructureSig.count = 0
     /\ b.lastGraphProcess # a.lastGraphProcess =>
          /\ in.type = "FIBER_GRAPH"
          /\ in.graph.count >= 10
          /\ AtLeastRatio(in.graph.count, a.lastGoodCount)
          /\ b.lastGraphProcess = b.now
     /\ reset => /\ b.lastGoodCount = 0
                 /\ b.prevStructureSig.count = 0
                 /\ b.nodes.count = 0

(* C23: the panel recomputes the layout for an incoming graph only if the   *)
(* graph has at least 10 nodes, at least 0.6 times the nodes of the last    *)
(* graph laid out since the last status other than REACT_READY, 150 ms have *)
(* passed since the last graph that passed the throttle, and its signature  *)
(* differs from the one accepted last since that status; a graph failing a  *)
(* guard changes neither nodes, edges nor analytics.                        *)
C23_GraphGuards == [][C23_GuardStep]_vars

(* a second graph is laid out, at exactly 0.6 times the nodes of the first *)
C23_Witness ==
  /\ GraphStep
  /\ pureOut.recomputed
  /\ pureIn.prior.shown.nodes.count = 20
  /\ pureOut.nodes.count = 12
  /\ pureOut.lastGoodCount = 12

(* C31: when the panel receives a STATUS whose payload is not REACT_READY,  *)
(* its stored status becomes that payload and its stored graph, displayed   *)
(* nodes and edges, analytics, last structure signature and last-good node  *)
(* count are reset to empty; a REACT_READY status changes only the stored   *)
(* status and keeps the graphs received before it.                          *)
C31_StatusStep ==
  LET in == pureIn'
      a == pureOut
      b == pureOut'
  IN in.type = "STATUS" =>
       /\ b.status = in.payload
       /\ IF in.payload # "REACT_READY"
          THEN /\ ~b.graph.hasLists
               /\ b.nodes.count = 0
               /\ b.edges.count = 0
               /\ b.analytics = "empty"
               /\ b.prevStructureSig.count = 0
               /\ b.lastGoodCount = 0
          ELSE /\ b.graph = a.graph
               /\ Shown(b) = Shown(a)
               /\ b.prevStructureSig = a.prevStructureSig
               /\ b.lastGoodCount = a.lastGoodCount
               /\ b.lastGoodLayout = a.lastGoodLayout
               /\ b.lastGraphProcess = a.lastGraphProcess

C31_StatusReset == [][C31_StatusStep]_vars

(* a status NO_REACT has emptied a panel that showed a graph of 20 nodes *)
C31_Witness ==
  /\ pureIn.type = "STATUS"
  /\ pureIn.payload = "NO_REACT"
  /\ pureIn.prior.shown.nodes.count = 20
  /\ pureIn.prior.shown.analytics = "set"
  /\ pureOut.status = "NO_REACT"
  /\ pureOut.nodes.count = 0
  /\ pureOut.analytics = "empty"

(* C32: within one traversal pass all assigned stable ids are pairwise     *)
(* distinct: no two nodes of the identity map, and no two entries of the   *)
(* graph's node list, share an id, for every fiber graph reachable from    *)
(* the root, also one where the root fiber has siblings.                   *)
C32_DistinctIds ==
  pureOut.done =>
    /\ \A i, j \in DOMAIN pureOut.idMap :
         pureOut.idMap[i].id = pureOut.idMap[j].id => i = j
    /\ \A i, j \in DOMAIN pureOut.graph.nodes :
         pureOut.graph.nodes[i].id = pureOut.graph.nodes[j].id => i = j

(* C33: every graph produced is a well-formed forest, also when the budget *)
(* cut the pass short: the ends of every edge are ids of nodes of the same *)
(* node list, every node with a parent id has exactly one inbound edge,    *)
(* which comes from that parent and from a shorter id, a node without a    *)
(* parent id (the root) has none, and the number of edges is the number of *)
(* nodes minus the number of nodes without a parent id.                    *)
C33_Forest ==
  pureOut.done =>
    LET nodes == pureOut.graph.nodes
        edges == pureOut.graph.edges
        ids == {nodes[i].id : i \in DOMAIN nodes}
        into(id) == {k \in DOMAIN edges : edges[k].to = id}
        orphans == {i \in DOMAIN pureOut.idMap : pureOut.idMap[i].parentId = <<>>}
    IN /\ Len(nodes) = Len(pureOut.idMap)
       /\ \A i \in DOMAIN nodes : nodes[i].id = pureOut.idMap[i].id
       /\ \A k \in DOMAIN edges : edges[k].from \in ids /\ edges[k].to \in ids
       /\ \A k \in DOMAIN edges : Len(edges[k].from) < Len(edges[k].to)
       /\ \A i \in DOMAIN pureOut.idMap :
            IF i \in orphans
            THEN into(pureOut.idMap[i].id) = {}
            ELSE /\ Cardinality(into(pureOut.idMap[i].id)) = 1
                 /\ \A k \in into(pureOut.idMap[i].id) :
                      edges[k].from = pureOut.idMap[i].parentId
       /\ pureIn.budget > 0 /\ pureIn.cur # 0 =>
            /\ pureOut.idMap[1].fiber = pureIn.cur
            /\ 1 \in orphans
       /\ Len(edges) = Len(nodes) - Cardinality(orphans)

(* a chain of three components cut after two: two nodes and one edge *)
C33_Witness ==
  /\ pureOut.done
  /\ pureIn.budget = 2
  /\ pureIn.h[1].child = 2
  /\ pureIn.h[2].typeKind = "function"
  /\ pureIn.h[2].child = 3
  /\ pureIn.h[3].typeKind = "function"
  /\ Len(pureOut.graph.nodes) = 2
  /\ Len(pureOut.graph.edges) = 1

(* C34: within one commit, every id of the FIBER_UPDATE payload and of the  *)
(* FIBER_META diffs is the id of a node of the FIBER_GRAPH posted before    *)
(* them in that same commit, although the graph and the update list come    *)
(* from two separate passes over the committing root.                       *)
C34_UpdateIdsInGraph ==
  FrameworkCommitHandled =>
    \A i \in DOMAIN act.emitted :
      LET e == act.emitted[i]
          named == IF e.type = "FIBER_UPDATE" THEN {e.payload[n].id : n \in DOMAIN e.payload}
                   ELSE IF e.type = "FIBER_META"
                   THEN {e.payload.diffs[n].id : n \in DOMAIN e.payload.diffs}
                   ELSE {}
      IN e.type \in {"FIBER_UPDATE", "FIBER_META"} =>
           \E j \in 1..(i - 1) :
             /\ act.emitted[j].type = "FIBER_GRAPH"
             /\ act.emitted[j].by = e.by
             /\ \A id \in named :
                  \E n \in DOMAIN act.emitted[j].payload.graph.nodes :
                    act.emitted[j].payload.graph.nodes[n].id = id

(* a commit in which two components updated: both are named in the update   *)
(* and in the diffs, and the graph has three nodes                          *)
C34_Witness ==
  /\ FrameworkCommitHandled
  /\ Len(act.emitted) = 3
  /\ act.emitted[1].type = "FIBER_GRAPH"
  /\ Len(act.emitted[1].payload.graph.nodes) = 3
  /\ act.emitted[2].type = "FIBER_UPDATE"
  /\ Len(act.emitted[2].payload) = 2
  /\ act.emitted[3].type = "FIBER_META"
  /\ Len(act.emitted[3].payload.diffs) = 2

(***************************************************************************)
(* Sessions: inspected tabs, each with its page and its DevTools panel,     *)
(* and the one background worker between them.                              *)
(*   pureOut.relay  : the background (lastStatus, lastGraph), the messages  *)
(*                    on their way to it (inflight) and what its last       *)
(*                    listener run broadcast (sent)                         *)
(*   pureOut.page   : per tab, whether the DevTools hook exists, the        *)
(*                    installed flag, the executeScript calls not yet run,  *)
(*                    whether the poll runs, whether the commit callback is *)
(*                    patched and whether REACT_READY was posted            *)
(*   pureOut.panel  : per tab, whether the panel is mounted, its stored     *)
(*                    status, and the tabs whose events it has received     *)
(*   pureOut.opens, pureOut.commits : how often a panel was mounted, how    *)
(*                    many commits the pages made                           *)
(* A message carries the tab of its sender in `from`, as the `sender`       *)
(* argument of chrome.runtime.onMessage does.                               *)
(***************************************************************************)
MaxTabs == 2
MaxOpens == 2
MaxCommits == 1
MaxQueue == 3

Tabs == 1..MaxTabs

SessionMessage(type, payload, tabId, from) ==
  [type |-> type, payload |-> payload, tabId |-> tabId, from |-> from]

NoPage(hook) ==
  [hook |-> hook, flag |-> FALSE, pending |-> 0, polling |-> FALSE,
   patched |-> FALSE, readyPosted |-> FALSE]
ClosedPanel == [open |-> FALSE, status |-> "INIT", heard |-> {}]
MountedPanel == [open |-> TRUE, status |-> "INIT", heard |-> {}]

NoSession(hooks) ==
  [relay |-> NoRelay,
   page |-> [t \in Tabs |-> NoPage(hooks[t])],
   panel |-> [t \in Tabs |-> ClosedPanel],
   opens |-> [t \in Tabs |-> 0],
   commits |-> 0]

SessionInput(kind, tab) == [kind |-> kind, tab |-> tab]

(* the router of a mounted panel, as far as the stored status goes: every   *)
(* listener of the runtime gets every broadcast                             *)
RECURSIVE panelReceive(_, _)
panelReceive(p, sent) ==
  IF sent = <<>> \/ ~p.open THEN p
  ELSE panelReceive(
         [p EXCEPT !.status = IF Head(sent).type = "STATUS" THEN Head(sent).payload ELSE @,
                   !.heard = @ \cup {Head(sent).from}],
         Tail(sent))

(* window.postMessage of the page, forwarded by the tab's content script *)
Posted(relay, t, events) ==
  [relay EXCEPT !.inflight = @ \o [i \in DOMAIN events |->
                                     SessionMessage(events[i].type, events[i].payload,
                                                    Undefined, t)]]

Room(n) == Len(pureOut.relay.inflight) + n <= MaxQueue

InitSession ==
  /\ hookPresent = FALSE
  /\ installedFlag = FALSE
  /\ onCommit = NoHandler
  /\ renderers = <<>>
  /\ fiberRoots = [r \in RendererIds |-> <<>>]
  /\ rootCurrent = [r \in Roots |-> Tree(AppHeap(0, 0), NULLF)]
  /\ scripts = <<>>
  /\ act = IdleAct
  /\ statusLog = <<>>
  /\ calls = 0
  /\ pureIn = SessionInput("init", 0)
  /\ pureOut \in {NoSession(hooks) : hooks \in [Tabs -> BOOLEAN]}

(* the panel of tab t mounts: listener, INJECT_HOOK_FROM_PANEL, PANEL_READY *)
PanelMount(t) ==
  /\ ~pureOut.panel[t].open
  /\ pureOut.opens[t] < MaxOpens
  /\ Room(2)
  /\ pureIn' = SessionInput("mount", t)
  /\ pureOut' = [pureOut EXCEPT
                   !.panel[t] = MountedPanel,
                   !.opens[t] = @ + 1,
                   !.relay.inflight =
                      @ \o <<SessionMessage("INJECT_HOOK_FROM_PANEL", Undefined, t, t),
                             SessionMessage("PANEL_READY", Undefined, Undefined, t)>>]
  /\ UNCHANGED pageVars

(* DevTools is closed: the panel page goes away with its listener *)
PanelUnmount(t) ==
  /\ pureOut.panel[t].open
  /\ pureIn' = SessionInput("unmount", t)
  /\ pureOut' = [pureOut EXCEPT !.panel[t] = ClosedPanel]
  /\ UNCHANGED pageVars

(* chrome.runtime.onMessage of the background, and the delivery of what it  *)
(* broadcasts to every mounted panel                                        *)
Background ==
  /\ pureOut.relay.inflight # <<>>
  /\ LET message == Head(pureOut.relay.inflight)
         listening == \E t \in Tabs : pureOut.panel[t].open
         out == IF listening THEN "delivered" ELSE "noListener"
         relay == onRuntimeMessage(
                    [pureOut.relay EXCEPT !.inflight = Tail(@), !.sent = <<>>,
                                          !.forwarded = <<>>, !.injected = <<>>],
                    message, out, out, "ok")
     IN /\ pureIn' = SessionInput(message.type, message.from)
        /\ pureOut' = [pureOut EXCEPT
                         !.relay = relay,
                         !.page = [t \in Tabs |->
                                     [@[t] EXCEPT !.pending =
                                        @ + Cardinality({i \in DOMAIN relay.injected :
                                                           relay.injected[i].tabId = t})]],
                         !.panel = [t \in Tabs |-> panelReceive(@[t], relay.sent)]]
  /\ UNCHANGED pageVars

(* page-hook.js runs in the page of tab t *)
Injected(t) ==
  /\ pureOut.page[t].pending > 0
  /\ Room(1)
  /\ LET p == pureOut.page[t]
         r == pageHookRun(1, p.hook, p.flag, OrigHandler)
     IN /\ pureIn' = SessionInput(r.script.outcome, t)
        /\ pureOut' = [pureOut EXCEPT
                         !.page[t] = [p EXCEPT !.pending = @ - 1,
                                               !.flag = r.flag,
                                               !.polling = @ \/ r.script.polling,
                                               !.patched = @ \/ r.script.outcome = "PATCHED"],
                         !.relay = Posted(@, t, r.emitted)]
  /\ UNCHANGED pageVars

(* the poll of tab t finds a renderer: emitAllRoots, then REACT_READY *)
PollReady(t) ==
  /\ pureOut.page[t].polling
  /\ Room(2)
  /\ pureIn' = SessionInput("ready", t)
  /\ pureOut' = [pureOut EXCEPT
                   !.page[t].polling = FALSE,
                   !.page[t].readyPosted = TRUE,
                   !.relay = Posted(@, t, <<Event("FIBER_GRAPH", 1, 1, 1),
                                            Event("STATUS", "REACT_READY", 1, NoRoot)>>)]
  /\ UNCHANGED pageVars

(* a commit in the page of tab t, with no updated node *)
PageCommit(t) ==
  /\ pureOut.page[t].patched
  /\ pureOut.commits < MaxCommits
  /\ Room(2)
  /\ pureIn' = SessionInput("commit", t)
  /\ pureOut' = [pureOut EXCEPT
                   !.commits = @ + 1,
                   !.relay = Posted(@, t, <<Event("FIBER_GRAPH", 2, 1, 1),
                                            Event("FIBER_META", 1, 1, NoRoot)>>)]
  /\ UNCHANGED pageVars

NextSession ==
  \/ \E t \in Tabs : PanelMount(t)
  \/ \E t \in Tabs : PanelUnmount(t)
  \/ Background
  \/ \E t \in Tabs : Injected(t)
  \/ \E t \in Tabs : PollReady(t)
  \/ \E t \in Tabs : PageCommit(t)

(* messages are handled, injected scripts run and polls tick *)
SpecSession ==
  /\ InitSession
  /\ [][NextSession]_vars
  /\ WF_vars(Background)
  /\ \A t \in Tabs : WF_vars(Injected(t)) /\ WF_vars(PollReady(t))

(* C35: on a page where the hook is installed and REACT_READY was posted,   *)
(* a panel that is mounted again (INJECT_HOOK_FROM_PANEL, then PANEL_READY) *)
(* eventually stores the status REACT_READY, unless it is closed or the     *)
(* panel of another tab is opened first.                                    *)
C35_ReopenedPanelReady ==
  \A t \in Tabs :
    [](( /\ pureOut.panel[t].open
         /\ pureOut.opens[t] >= 2
         /\ pureOut.page[t].flag
         /\ pureOut.page[t].readyPosted )
       => <>( \/ pureOut.panel[t].status = "REACT_READY"
              \/ ~pureOut.panel[t].open
              \/ \E u \in Tabs \ {t} : pureOut.opens[u] > 0 ))

(* C38: every event a panel receives, live or replayed from the cache,      *)
(* comes from the tab the panel asked to be attached to.                    *)
C38_TabIsolation ==
  \A t \in Tabs : pureOut.panel[t].heard \subseteq {t}

(***************************************************************************)
(* The panel while every layout succeeds and time goes on.                  *)
(***************************************************************************)
NextPanelLaidOut ==
  \/ \E payload \in PanelStatuses : PanelStatus(payload)
  \/ \E g \in PanelGraphs : PanelFiberGraph(g, TRUE)
  \/ PanelFiberMeta
  \/ PanelFiberUpdate
  \/ PanelClock

FairPanel == InitPanel /\ [][NextPanelLaidOut]_vars /\ WF_vars(PanelClock)

(* the graph received last passes the size guards and is not the one shown *)
LastGraphNotShown ==
  /\ pureOut.graph.hasLists
  /\ pureOut.graph.count >= 10
  /\ AtLeastRatio(pureOut.graph.count, pureOut.lastGoodCount)
  /\ pureOut.nodes # [count |-> pureOut.graph.count, shape |-> pureOut.graph.shape]

(* C36: if the last FIBER_GRAPH received passes the size guards and its     *)
(* structure is not the one displayed, that structure is eventually         *)
(* displayed even if no further FIBER_GRAPH arrives: a graph is not lost    *)
(* because it came less than 150 ms after an earlier one.                   *)
C36_EventuallyDisplayed ==
  [](( LastGraphNotShown /\ pureIn.type # "FIBER_GRAPH" )
     => <>( ~LastGraphNotShown \/ pureIn.type = "FIBER_GRAPH" ))

(***************************************************************************)
(* The panel's analytics (usePanelBridge.ts applyFiberUpdate 141-193,       *)
(* applyFiberMeta 199-221): the events of one commit are FIBER_GRAPH,       *)
(* FIBER_UPDATE when a node updated, and FIBER_META.                        *)
(*   pureOut.lastCounts : lastCountsRef                                     *)
(*   pureOut.analytics  : the Redux analytics, counts and reasons by key    *)
(*   pureOut.queue      : the events of the commit not yet handled          *)
(*   pureOut.commits    : the commits received                              *)
(*   pureIn             : the update records of the latest commit, and      *)
(*                        whether its graph was accepted as a new structure *)
(***************************************************************************)
MaxPanelCommits == 2

IdA3 == <<"R", "/", "A", "[", "3", "]">>
IdA7 == <<"R", "/", "A", "[", "7", "]">>
IdB3 == <<"R", "/", "A", "[", "3", "]", "/", "B", "[", "3", "]">>
UpdatedIds == <<IdA3, IdA7, IdB3>>

DiffRecord(id, kind) ==
  [id |-> id,
   propsChanged |-> IF kind = "props" THEN <<"a">> ELSE <<>>,
   stateChanged |-> IF kind = "state" THEN <<"s">> ELSE <<>>,
   wasted |-> kind = "wasted"]

RECURSIVE DiffsOf(_, _)
(* the update records of a commit: for each id in order, none or one *)
DiffsOf(kinds, i) ==
  IF i > Len(UpdatedIds) THEN <<>>
  ELSE (IF kinds[i] = "clean" THEN <<>> ELSE <<DiffRecord(UpdatedIds[i], kinds[i])>>)
       \o DiffsOf(kinds, i + 1)

CommitDiffs ==
  {DiffsOf(kinds, 1) :
     kinds \in [DOMAIN UpdatedIds -> {"clean", "wasted", "props", "state"}]}

NoRecord == [k \in {} |-> 0]
EmptyAnalytics == [counts |-> NoRecord, reasons |-> NoRecord]

(* record[key] = value *)
Put(record, key, value) ==
  [k \in DOMAIN record \cup {key} |-> IF k = key THEN value ELSE record[k]]

RECURSIVE CountKeys(_, _)
(* nextCounts[key] = (nextCounts[key] ?? 0) + 1, for each id *)
CountKeys(ids, counts) ==
  IF ids = <<>> THEN counts
  ELSE LET key == getSignature(Head(ids))
       IN CountKeys(Tail(ids),
                    Put(counts, key, (IF key \in DOMAIN counts THEN counts[key] ELSE 0) + 1))

applyFiberUpdate(st, payload) ==
  [st EXCEPT !.lastCounts = CountKeys([i \in DOMAIN payload |-> payload[i].id], NoRecord)]

RECURSIVE ReasonKeys(_, _)
ReasonKeys(diffs, reasons) ==
  IF diffs = <<>> THEN reasons
  ELSE LET d == Head(diffs)
           key == getSignature(d.id)
       IN ReasonKeys(Tail(diffs),
                     IF d.wasted THEN Put(reasons, key, "wasted")
                     ELSE IF Len(d.propsChanged) # 0 THEN Put(reasons, key, "props")
                     ELSE IF Len(d.stateChanged) # 0 THEN Put(reasons, key, "state")
                     ELSE reasons)

applyFiberMeta(st, payload) ==
  [st EXCEPT !.analytics = [counts |-> st.lastCounts,
                            reasons |-> ReasonKeys(payload.diffs, NoRecord)]]

NoAnalytics ==
  [lastCounts |-> NoRecord, analytics |-> EmptyAnalytics, queue |-> <<>>, commits |-> 0]

AnalyticsInput(diffs, accepted) == [diffs |-> diffs, accepted |-> accepted]

InitAnalytics ==
  /\ hookPresent = FALSE
  /\ installedFlag = FALSE
  /\ onCommit = NoHandler
  /\ renderers = <<>>
  /\ fiberRoots = [r \in RendererIds |-> <<>>]
  /\ rootCurrent = [r \in Roots |-> Tree(AppHeap(0, 0), NULLF)]
  /\ scripts = <<>>
  /\ act = IdleAct
  /\ statusLog = <<>>
  /\ calls = 0
  /\ pureIn = AnalyticsInput(<<>>, FALSE)
  /\ pureOut = NoAnalytics

(* the events of one commit reach the panel (page-hook.js 131-155) *)
CommitEvents(diffs, accepted) ==
  /\ pureOut.queue = <<>>
  /\ pureOut.commits < MaxPanelCommits
  /\ pureIn' = AnalyticsInput(diffs, accepted)
  /\ pureOut' = [pureOut EXCEPT
                   !.commits = @ + 1,
                   !.queue = <<[type |-> "FIBER_GRAPH", payload |-> accepted]>>
                             \o (IF Len(diffs) # 0
                                 THEN <<[type |-> "FIBER_UPDATE",
                                         payload |-> [i \in DOMAIN diffs |-> [id |-> diffs[i].id]]]>>
                                 ELSE <<>>)
                             \o <<[type |-> "FIBER_META", payload |-> [diffs |-> diffs]]>>]
  /\ UNCHANGED pageVars

HeadIs(type) == pureOut.queue # <<>> /\ Head(pureOut.queue).type = type

(* FIBER_GRAPH: a graph accepted as a new structure resets the analytics *)
AnalyticsGraph ==
  /\ HeadIs("FIBER_GRAPH")
  /\ pureOut' = [pureOut EXCEPT
                   !.queue = Tail(@),
                   !.analytics = IF Head(pureOut.queue).payload THEN EmptyAnalytics ELSE @]
  /\ UNCHANGED pureIn
  /\ UNCHANGED pageVars

AnalyticsUpdate ==
  /\ HeadIs("FIBER_UPDATE")
  /\ pureOut' = applyFiberUpdate([pureOut EXCEPT !.queue = Tail(@)], Head(pureOut.queue).payload)
  /\ UNCHANGED pureIn
  /\ UNCHANGED pageVars

AnalyticsMeta ==
  /\ HeadIs("FIBER_META")
  /\ pureOut' = applyFiberMeta([pureOut EXCEPT !.queue = Tail(@)], Head(pureOut.queue).payload)
  /\ UNCHANGED pureIn
  /\ UNCHANGED pageVars

NextAnalytics ==
  \/ \E diffs \in CommitDiffs : \E accepted \in BOOLEAN : CommitEvents(diffs, accepted)
  \/ AnalyticsGraph
  \/ AnalyticsUpdate
  \/ AnalyticsMeta

SpecAnalytics == InitAnalytics /\ [][NextAnalytics]_vars

(* C37: after the panel has handled the events of one commit, the stored    *)
(* analytics describe that commit only: the keys of counts are the          *)
(* signatures of the ids updated in that commit, each with the number of    *)
(* its instances, the keys of reasons are the keys of counts, and a commit  *)
(* with no updated node leaves counts empty.                                *)
C37_AnalyticsOfLastCommit ==
  (pureOut.commits > 0 /\ pureOut.queue = <<>>) =>
    LET diffs == pureIn.diffs
        keys == {getSignature(diffs[i].id) : i \in DOMAIN diffs}
    IN /\ DOMAIN pureOut.analytics.counts = keys
       /\ \A k \in keys :
            pureOut.analytics.counts[k] =
              Cardinality({i \in DOMAIN diffs : getSignature(diffs[i].id) = k})
       /\ DOMAIN pureOut.analytics.reasons = DOMAIN pureOut.analytics.counts

(***************************************************************************)
(* Highlights (usePanelBridge.ts 68-73, 114-134, 141-193, 226-235).         *)
(* The graph has the nodes HlNodes; a style is highlighted or plain.        *)
(*   pureOut.now        : Date.now()                                        *)
(*   pureOut.until      : highlightUntilRef, 0 for an id not in the map     *)
(*   pureOut.timer      : the time the pending clear timer is due, 0 when   *)
(*                        none is pending                                   *)
(*   pureOut.shown      : the style of each displayed node (highlighted or  *)
(*                        not), NoNodes when nothing is displayed           *)
(*   pureOut.cached     : lastGoodLayoutRef, NoNodes for null               *)
(*   pureOut.evaluated  : the time the displayed styles were computed       *)
(*   pureIn             : the kind of the last step                         *)
(***************************************************************************)
HIGHLIGHT_MS == 700
TimerSlack == 30
MaxHlTicks == 4

HlNodes == {"A", "B"}
HlStep == (HIGHLIGHT_MS + TimerSlack) \div 2
EndTime == StartTime + MaxHlTicks * HlStep
NoNodes == [n \in {} |-> FALSE]

NoHighlight ==
  [now |-> StartTime, until |-> [n \in HlNodes |-> 0], timer |-> 0,
   shown |-> NoNodes, cached |-> NoNodes, evaluated |-> 0]

(* isHighlightActive(id) *)
isHighlightActive(st, id) == st.until[id] > st.now

(* prev.map((n) => ({...n, style: active ? highlighted : plain})) *)
Restyled(st, nodes) == [n \in DOMAIN nodes |-> isHighlightActive(st, n)]

(* applyFiberUpdate, as far as highlights go: mark, restyle, restart timer *)
highlightUpdated(st, ids) ==
  LET st1 == [st EXCEPT !.until = [n \in HlNodes |->
                                     IF n \in ids THEN st.now + HIGHLIGHT_MS ELSE @[n]]]
  IN [st1 EXCEPT !.shown = Restyled(st1, st.shown),
                 !.evaluated = st.now,
                 !.timer = st.now + HIGHLIGHT_MS + TimerSlack]

(* the callback of the clear timer *)
clearHighlights(st) ==
  [st EXCEPT !.shown = Restyled(st, st.shown), !.evaluated = st.now, !.timer = 0]

(* handleFiberGraph from buildFlowNodes on, for a graph that passed the     *)
(* guards; when the layout throws the nodes just styled are dropped and    *)
(* the cached nodes are put back with the styles they were cached with      *)
layoutGraph(st, layoutOk) ==
  LET rfNodes == [n \in HlNodes |-> isHighlightActive(st, n)]
  IN IF layoutOk
     THEN [st EXCEPT !.shown = rfNodes, !.cached = rfNodes, !.evaluated = st.now]
     ELSE IF st.cached # NoNodes THEN [st EXCEPT !.shown = st.cached]
     ELSE st

InitHighlight ==
  /\ hookPresent = FALSE
  /\ installedFlag = FALSE
  /\ onCommit = NoHandler
  /\ renderers = <<>>
  /\ fiberRoots = [r \in RendererIds |-> <<>>]
  /\ rootCurrent = [r \in Roots |-> Tree(AppHeap(0, 0), NULLF)]
  /\ scripts = <<>>
  /\ act = IdleAct
  /\ statusLog = <<>>
  /\ calls = 0
  /\ pureIn = "init"
  /\ pureOut = NoHighlight

(* FIBER_UPDATE naming the nodes ids; the last one comes early enough for  *)
(* its timer to be due within the modelled time                             *)
HighlightUpdate(ids) ==
  /\ pureOut.now + HIGHLIGHT_MS + TimerSlack <= EndTime
  /\ pureIn' = "FIBER_UPDATE"
  /\ pureOut' = highlightUpdated(pureOut, ids)
  /\ UNCHANGED pageVars

(* FIBER_GRAPH with a new structure that passes the guards *)
HighlightGraph(layoutOk) ==
  /\ pureIn' = IF layoutOk THEN "FIBER_GRAPH" ELSE "FIBER_GRAPH layout throws"
  /\ pureOut' = layoutGraph(pureOut, layoutOk)
  /\ UNCHANGED pageVars

(* STATUS other than REACT_READY: resetUiForNonReact *)
HighlightReset ==
  /\ pureIn' = "STATUS"
  /\ pureOut' = [pureOut EXCEPT !.shown = NoNodes, !.cached = NoNodes]
  /\ UNCHANGED pageVars

(* the clear timer fires, at its due time or later *)
ClearTimer ==
  /\ pureOut.timer # 0
  /\ pureOut.now >= pureOut.timer
  /\ pureIn' = "timer"
  /\ pureOut' = clearHighlights(pureOut)
  /\ UNCHANGED pageVars

HighlightClock ==
  /\ pureOut.now < EndTime
  /\ pureIn' = "clock"
  /\ pureOut' = [pureOut EXCEPT !.now = @ + HlStep]
  /\ UNCHANGED pageVars

NextHighlight ==
  \/ \E ids \in (SUBSET HlNodes) \ {{}} : HighlightUpdate(ids)
  \/ \E layoutOk \in BOOLEAN : HighlightGraph(layoutOk)
  \/ HighlightReset
  \/ ClearTimer
  \/ HighlightClock

(* time goes on and a due timer fires *)
SpecHighlight ==
  InitHighlight /\ [][NextHighlight]_vars /\ WF_vars(HighlightClock) /\ WF_vars(ClearTimer)

(* C39, first part: a displayed node is highlighted only if a FIBER_UPDATE  *)
(* named it less than 700 ms before the last style evaluation.              *)
C39_OnlyRecent ==
  \A n \in DOMAIN pureOut.shown :
    pureOut.shown[n] =>
      /\ pureOut.until[n] # 0
      /\ pureOut.evaluated - (pureOut.until[n] - 700) < 700
      /\ pureOut.evaluated >= pureOut.until[n] - 700

(* C39: highlights are transient: a displayed node is highlighted only if   *)
(* a FIBER_UPDATE named it less than 700 ms before the last style           *)
(* evaluation, and every highlighted node eventually returns to the plain   *)
(* style unless a further FIBER_UPDATE comes, however later FIBER_UPDATE    *)
(* events restart the clear timer.                                          *)
C39_TransientHighlights ==
  /\ []C39_OnlyRecent
  /\ \A n \in HlNodes :
       []((n \in DOMAIN pureOut.shown /\ pureOut.shown[n] /\ pureIn # "FIBER_UPDATE")
          => <>( \/ n \notin DOMAIN pureOut.shown
                 \/ ~pureOut.shown[n]
                 \/ pureIn = "FIBER_UPDATE" ))

====
